---- MODULE Spec2Model ----
(***************************************************************************)
(* A model of the Google Drive PDF merge tool (pdf-merge): URL extraction, *)
(* the access probe gate, the sequential download / sniff / convert loop,  *)
(* the merger, and the direct and interactive drivers.                     *)
(*                                                                         *)
(* Strings are sequences of one-character strings, so that split, trim,    *)
(* includes and the identifier patterns are computed character by          *)
(* character.  File buffers are sequences of byte values.                   *)
(***************************************************************************)
EXTENDS Integers, Sequences, FiniteSets, TLC

(***************************************************************************)
(* Bounds of the model.                                                    *)
(***************************************************************************)
\* Largest number of URLs in one batch.
MaxUrls == 2
\* Largest number of pages of a downloaded PDF.
MaxPages == 2
\* Largest number of parts after the host of a token given to extractFileId.
MaxParts == 2
\* Largest number of bytes of a buffer given to getFileType.
MaxBytes == 12
\* Largest number of lines that arrive together on standard input.
MaxLines == 2

(***************************************************************************)
(* Character-level string helpers.                                         *)
(***************************************************************************)
\* JavaScript \s (and the set String.prototype.trim strips), restricted to
\* the characters the model's inputs use.
WhiteSpace == {" ", "\t", "\n"}

LowerCase == {"a", "b", "c", "d", "e", "f", "g", "h", "i", "j", "k", "l", "m", "n", "o", "p", "q", "r", "s", "t", "u", "v", "w", "x", "y", "z"}
UpperCase == {"A", "B", "C", "D", "E", "F", "G", "H", "I", "J", "K", "L", "M", "N", "O", "P", "Q", "R", "S", "T", "U", "V", "W", "X", "Y", "Z"}
Digits == {"0", "1", "2", "3", "4", "5", "6", "7", "8", "9"}
\* The character class [a-zA-Z0-9-_] of the identifier patterns.
IdChars == LowerCase \cup UpperCase \cup Digits \cup {"-", "_"}

\* s.trim()
RECURSIVE TrimLeft(_)
TrimLeft(s) ==
  IF s # <<>> /\ Head(s) \in WhiteSpace THEN TrimLeft(Tail(s)) ELSE s
RECURSIVE TrimRight(_)
TrimRight(s) ==
  IF s # <<>> /\ s[Len(s)] \in WhiteSpace
    THEN TrimRight(SubSeq(s, 1, Len(s) - 1))
    ELSE s
Trim(s) == TrimRight(TrimLeft(s))

\* sub occurs in s at position p (1-based)
OccursAt(s, sub, p) ==
  /\ p >= 1
  /\ p + Len(sub) - 1 <= Len(s)
  /\ \A k \in 1..Len(sub) : s[p + k - 1] = sub[k]

\* s.includes(sub)
Includes(s, sub) == \E p \in 1..(Len(s) + 1) : OccursAt(s, sub, p)

\* The matches of /[\n,]|\s+/ in s, left to right.  At each position the
\* alternative [\n,] is tried first and matches one character; otherwise \s+
\* matches the whole run of whitespace that starts there.

\* s[p] is swallowed by a \s+ match that started before p.
InRun(s, p) ==
  /\ s[p] \in WhiteSpace
  /\ \E q \in 1..(p - 1) :
       /\ s[q] \in WhiteSpace \ {"\n"}
       /\ \A r \in q..p : s[r] \in WhiteSpace

\* A match of the separator pattern starts at p.
MatchStart(s, p) == s[p] \in (WhiteSpace \cup {","}) /\ ~InRun(s, p)

\* Last position of the match that starts at p.
MatchEnd(s, p) ==
  IF s[p] \in {"\n", ","} THEN p
  ELSE CHOOSE e \in p..Len(s) :
         /\ \A r \in p..e : s[r] \in WhiteSpace
         /\ (e = Len(s) \/ s[e + 1] \notin WhiteSpace)

\* The elements of a set of numbers in increasing order.
Sorted(S) ==
  [k \in 1..Cardinality(S) |->
     CHOOSE x \in S : Cardinality({y \in S : y < x}) = k - 1]

\* input.split(/[\n,]|\s+/): the pieces between consecutive matches, empty
\* pieces included.
Split(s) ==
  LET starts == Sorted({p \in 1..Len(s) : MatchStart(s, p)})
      n == Len(starts)
      from(k) == IF k = 1 THEN 1 ELSE MatchEnd(s, starts[k - 1]) + 1
      to(k) == IF k = n + 1 THEN Len(s) ELSE starts[k] - 1
  IN [k \in 1..(n + 1) |-> SubSeq(s, from(k), to(k))]

\* array.map(f)
MapSeq(seq, F(_)) == [k \in 1..Len(seq) |-> F(seq[k])]

\* Literals of the source.
DriveHost == <<"d", "r", "i", "v", "e", ".", "g", "o", "o", "g", "l", "e", ".", "c", "o", "m">>
FileDPath == <<"/", "f", "i", "l", "e", "/", "d", "/">>
IdParam == <<"i", "d", "=">>
DPath == <<"/", "d", "/">>

\* Faulty variant: only the /file/d/ marker is looked for.
LooksLikeDriveUrlFileOnly(token) ==
  /\ Includes(token, DriveHost)
  /\ Includes(token, FileDPath)

\* The token test of parseUrls.
LooksLikeDriveUrl(token) ==
  /\ Includes(token, DriveHost)
  /\ (Includes(token, FileDPath) \/ Includes(token, IdParam))

NonEmpty(token) == Len(token) > 0

\* Faulty variant: the first URL found is left out.
parseUrlsSkipsFirst(input) ==
  LET tokens == SelectSeq(MapSeq(Split(input), Trim), NonEmpty)
      found == SelectSeq(tokens, LooksLikeDriveUrl)
  IN SubSeq(found, 2, Len(found))

\* Faulty variant: a URL that occurs again is dropped.
parseUrlsDistinct(input) ==
  LET tokens == SelectSeq(MapSeq(Split(input), Trim), NonEmpty)
      found == SelectSeq(tokens, LooksLikeDriveUrl)
      first(k) == \A j \in 1..(k - 1) : found[j] # found[k]
      kept == SelectSeq([k \in 1..Len(found) |-> k], first)
  IN [k \in 1..Len(kept) |-> found[kept[k]]]

\* parseUrls(input)
parseUrls(input) ==
  LET tokens == SelectSeq(MapSeq(Split(input), Trim), NonEmpty)
  IN SelectSeq(tokens, LooksLikeDriveUrl)

\* The greedy capture ([a-zA-Z0-9-_]+) starting at position p.
RECURSIVE Capture(_, _)
Capture(s, p) ==
  IF p <= Len(s) /\ s[p] \in IdChars THEN <<s[p]>> \o Capture(s, p + 1) ELSE <<>>

\* url.match(/<prefix>([a-zA-Z0-9-_]+)/): the positions where it matches.
MatchPositions(url, prefix) ==
  {p \in 1..Len(url) :
     /\ OccursAt(url, prefix, p)
     /\ p + Len(prefix) <= Len(url)
     /\ url[p + Len(prefix)] \in IdChars}

Min(S) == CHOOSE x \in S : \A y \in S : x <= y

\* match[1] of the leftmost match
MatchId(url, prefix) == Capture(url, Min(MatchPositions(url, prefix)) + Len(prefix))

\* Faulty variant: the id= pattern comes first.
patternsParamFirst == <<IdParam, FileDPath, DPath>>

\* The three patterns of extractFileId, in the order of the array.
patterns == <<FileDPath, IdParam, DPath>>

\* An error value: the message as its fixed parts, and the URL or inner
\* message interpolated into it.
Err(parts, url) == [parts |-> parts, url |-> url]
NoErr == Err(<<>>, <<>>)

\* extractFileId(url): [ok, id] on a match, [ok = FALSE, error] for the throw.
extractFileId(url) ==
  LET hits == {k \in 1..Len(patterns) : MatchPositions(url, patterns[k]) # {}}
  IN IF hits # {}
       THEN [ok |-> TRUE, id |-> MatchId(url, patterns[Min(hits)]), error |-> NoErr]
       ELSE [ok |-> FALSE, id |-> <<>>,
             error |-> Err(<<"Invalid Google Drive URL: ">>, url)]

\* Prefix an error message, as in `Failed to ...: ${error.message}`.
Wrap(prefix, e) == Err(<<prefix>> \o e.parts, e.url)
\* message.includes(word), on the parts of a message
Mentions(e, word) == \E k \in 1..Len(e.parts) : e.parts[k] = word

\* getDirectDownloadUrl(fileId)
getDirectDownloadUrl(fileId) ==
  <<"h", "t", "t", "p", "s", ":", "/", "/", "d", "r", "i", "v", "e", ".", "g", "o", "o", "g", "l", "e", ".", "c", "o", "m", "/", "u", "c", "?", "e", "x", "p", "o", "r", "t", "=", "d", "o", "w", "n", "l", "o", "a", "d", "&", "i", "d", "=">> \o fileId

(***************************************************************************)
(* Type sniffing.  A buffer is a sequence of byte values.                  *)
(***************************************************************************)
\* "%PDF"
PdfMagic == <<37, 80, 68, 70>>
\* The signatures table of getFileType, in insertion order
\* (png, jpg, jpeg, gif, bmp, webp, heic).
signatures ==
  << <<137, 80, 78, 71>>,
     <<255, 216, 255>>,
     <<255, 216, 255>>,
     <<71, 73, 70>>,
     <<66, 77>>,
     <<82, 73, 70, 70>>,
     <<0, 0, 0, 24, 102, 116, 121, 112, 104, 101, 105, 99>> >>
\* "ftypheic" and "ftypmif1"
FtypHeic == <<102, 116, 121, 112, 104, 101, 105, 99>>
FtypMif1 == <<102, 116, 121, 112, 109, 105, 102, 49>>

\* buffer.slice(from, to), both 0-based, to exclusive, clipped to the buffer
Slice(buffer, from, to) ==
  SubSeq(buffer, from + 1, IF to <= Len(buffer) THEN to ELSE Len(buffer))

\* signature.every((byte, index) => buffer[index] === byte)
SignatureMatches(signature, buffer) ==
  \A index \in 1..Len(signature) :
    index <= Len(buffer) /\ buffer[index] = signature[index]

\* Faulty variant: the image checks come before the PDF check.
getFileTypeImageFirst(buffer) ==
  IF \E k \in 1..Len(signatures) : SignatureMatches(signatures[k], buffer)
    THEN [ok |-> TRUE, type |-> "image", error |-> NoErr]
  ELSE IF Slice(buffer, 4, 12) \in {FtypHeic, FtypMif1}
    THEN [ok |-> TRUE, type |-> "image", error |-> NoErr]
  ELSE IF Slice(buffer, 0, 4) = PdfMagic
    THEN [ok |-> TRUE, type |-> "pdf", error |-> NoErr]
  ELSE [ok |-> FALSE, type |-> "none",
        error |-> Err(<<"Failed to determine file type: ", "Unsupported file type">>, <<>>)]

\* getFileType on the bytes read from the file
getFileType(buffer) ==
  IF Slice(buffer, 0, 4) = PdfMagic
    THEN [ok |-> TRUE, type |-> "pdf", error |-> NoErr]
  ELSE IF \E k \in 1..Len(signatures) : SignatureMatches(signatures[k], buffer)
    THEN [ok |-> TRUE, type |-> "image", error |-> NoErr]
  ELSE IF Slice(buffer, 4, 12) \in {FtypHeic, FtypMif1}
    THEN [ok |-> TRUE, type |-> "image", error |-> NoErr]
  ELSE [ok |-> FALSE, type |-> "none",
        error |-> Err(<<"Failed to determine file type: ", "Unsupported file type">>, <<>>)]

(***************************************************************************)
(* The remote world: what a download can deliver.  A file is its leading   *)
(* bytes, its page count when it is a PDF, whether pdf-lib can load it and *)
(* how sharp fares decoding it ("ok", "heif", "other").                     *)
(***************************************************************************)
File(bytes, pages, loadable, decode) ==
  [bytes |-> bytes, pages |-> pages, loadable |-> loadable, decode |-> decode]

PdfFile(k) == File(PdfMagic, k, TRUE, "other")
CorruptPdf == File(PdfMagic, 0, FALSE, "other")
PngFile == File(<<137, 80, 78, 71>>, 0, FALSE, "ok")
HeicFile == File(<<0, 0, 0, 32>> \o FtypHeic, 0, FALSE, "heif")
TextFile == File(<<104, 105>>, 0, FALSE, "other")
\* What is on disk when the write stream fails part-way.
PartialFile == File(<<>>, 0, FALSE, "other")

\* What a download can deliver: a one-page PDF, a PDF of MaxPages pages, a
\* PDF that pdf-lib cannot load, an image, an image sharp cannot decode, and
\* a file of no supported type.
RemoteFiles ==
  {PdfFile(1), PdfFile(MaxPages), CorruptPdf, PngFile, HeicFile, TextFile}

\* A PDF buffer ready to merge: the ordinal (1-based) of the URL it comes
\* from, its pages, and whether PDFDocument.load accepts it.
\* A page is <<ordinal, page number in its source>>.
Buffer(origin, n, loadable) ==
  [origin |-> origin, pages |-> [j \in 1..n |-> <<origin, j>>], loadable |-> loadable]

\* imageToPdf: a one-page document, or the error it throws.
imageToPdf(file, origin) ==
  IF file.decode = "ok"
    THEN [ok |-> TRUE, buffer |-> Buffer(origin, 1, TRUE), error |-> NoErr]
  ELSE LET e == IF file.decode = "heif"
                  THEN Err(<<"heif", ": Unsupported feature">>, <<>>)
                  ELSE Err(<<"Input file contains unsupported image format">>, <<>>)
       IN [ok |-> FALSE, buffer |-> Buffer(origin, 0, FALSE),
           error |-> IF Mentions(e, "heif") \/ Mentions(e, "HEIF")
                       THEN Wrap("HEIC/HEIF processing failed: ", e)
                       ELSE Wrap("Failed to convert image to PDF: ", e)]

(***************************************************************************)
(* The access probe.                                                       *)
(***************************************************************************)
\* What axios can come back with: a response (status, content type) or an
\* error (status of error.response or 0, error.code, error.message).
Response(status, ctype) ==
  [resolved |-> TRUE, status |-> status, ctype |-> ctype, code |-> "", message |-> <<>>]
Failure(status, code, message) ==
  [resolved |-> FALSE, status |-> status, ctype |-> <<>>, code |-> code, message |-> message]

ProbeOutcomes ==
  { Response(200, <<"application/pdf">>),
    Response(206, <<"image/png">>),
    Response(200, <<"text/html", "; charset=utf-8">>),
    Failure(403, "ERR_BAD_REQUEST", <<"Request failed with status code 403">>),
    Failure(404, "ERR_BAD_REQUEST", <<"Request failed with status code 404">>),
    Failure(0, "ENOTFOUND", <<"getaddrinfo ENOTFOUND drive.google.com">>),
    Failure(0, "ECONNRESET", <<"socket hang up">>),
    Failure(0, "ECONNABORTED", <<"timeout of 10000ms exceeded">>),
    Failure(0, "", <<>>) }

\* validateStatus of the probe request
validateStatus(status) == status = 200 \/ status = 206

\* The result record of testUrlAccess for URL `url` at ordinal `index`, given
\* how the request ended.
ProbeResult(success, url, index, fileId, error) ==
  [success |-> success, url |-> url, index |-> index, fileId |-> fileId, error |-> error]

\* Faulty variant: a URL without identifier is reported accessible.
testUrlAccessUnchecked(url, index, outcome) ==
  LET id == extractFileId(url)
  IN IF ~id.ok THEN ProbeResult(TRUE, url, index, <<>>, NoErr)
     ELSE IF outcome.resolved /\ validateStatus(outcome.status)
       THEN IF \E k \in 1..Len(outcome.ctype) : outcome.ctype[k] = "text/html"
              THEN ProbeResult(FALSE, url, index, <<>>,
                               Err(<<"Permission denied or file not accessible">>, <<>>))
              ELSE ProbeResult(TRUE, url, index, id.id, NoErr)
     ELSE ProbeResult(FALSE, url, index, <<>>, Err(<<"Unknown error">>, <<>>))

\* Faulty variant: the content type of the response is not looked at.
testUrlAccessAnyContent(url, index, outcome) ==
  LET id == extractFileId(url)
  IN IF ~id.ok THEN ProbeResult(FALSE, url, index, <<>>, id.error)
     ELSE IF outcome.resolved /\ validateStatus(outcome.status)
       THEN ProbeResult(TRUE, url, index, id.id, NoErr)
     ELSE ProbeResult(FALSE, url, index, <<>>,
            IF outcome.status = 403 THEN Err(<<"Permission denied">>, <<>>)
            ELSE IF outcome.status = 404 THEN Err(<<"File not found">>, <<>>)
            ELSE IF outcome.code = "ENOTFOUND" THEN Err(<<"Network error">>, <<>>)
            ELSE IF outcome.code = "ECONNRESET" THEN Err(<<"Connection reset">>, <<>>)
            ELSE IF outcome.message # <<>> THEN Err(outcome.message, <<>>)
            ELSE Err(<<"Unknown error">>, <<>>))

testUrlAccess(url, index, outcome) ==
  LET id == extractFileId(url)
  IN IF ~id.ok THEN ProbeResult(FALSE, url, index, <<>>, id.error)
     ELSE IF outcome.resolved /\ validateStatus(outcome.status)
       THEN IF \E k \in 1..Len(outcome.ctype) : outcome.ctype[k] = "text/html"
              THEN ProbeResult(FALSE, url, index, <<>>,
                               Err(<<"Permission denied or file not accessible">>, <<>>))
              ELSE ProbeResult(TRUE, url, index, id.id, NoErr)
     ELSE ProbeResult(FALSE, url, index, <<>>,
            IF outcome.status = 403 THEN Err(<<"Permission denied">>, <<>>)
            ELSE IF outcome.status = 404 THEN Err(<<"File not found">>, <<>>)
            ELSE IF outcome.code = "ENOTFOUND" THEN Err(<<"Network error">>, <<>>)
            ELSE IF outcome.code = "ECONNRESET" THEN Err(<<"Connection reset">>, <<>>)
            ELSE IF outcome.message # <<>> THEN Err(outcome.message, <<>>)
            ELSE Err(<<"Unknown error">>, <<>>))

\* accessTests.filter((test) => !test.success)
NotSuccess(test) == ~test.success
\* Faulty variant: only the first probe is looked at.
FailedUrlsFirstOnly(tests) == SelectSeq(SubSeq(tests, 1, 1), NotSuccess)
FailedUrls(tests) == SelectSeq(tests, NotSuccess)

(***************************************************************************)
(* The merger.                                                             *)
(***************************************************************************)
\* Faulty variant: the last page is left out.
getPageIndicesButLast(pdf) == [k \in 1..(Len(pdf.pages) - 1) |-> k - 1]

\* pdf.getPageIndices(): 0-based indices of the pages, in order
getPageIndices(pdf) == [k \in 1..Len(pdf.pages) |-> k - 1]

\* Faulty variant: the copied pages are inserted in front.
AddPagesInFront(merged, pdf) ==
  LET pageIndices == getPageIndices(pdf)
      pages == [k \in 1..Len(pageIndices) |-> pdf.pages[pageIndices[k] + 1]]
  IN pages \o merged

\* copyPages(pdf, pageIndices) followed by addPage for each copied page
AddPages(merged, pdf) ==
  LET pageIndices == getPageIndices(pdf)
      pages == [k \in 1..Len(pageIndices) |-> pdf.pages[pageIndices[k] + 1]]
  IN merged \o pages

(***************************************************************************)
(* Inputs of the model.                                                    *)
(***************************************************************************)
\* A link with a /file/d/<id> segment, one with an id= parameter, and one
\* that passes the token test of parseUrls but carries no identifier.
Url1 == DriveHost \o FileDPath \o <<"A">>
Url2 == DriveHost \o <<"/", "u", "c", "?">> \o IdParam \o <<"B">>
UrlNoId == DriveHost \o FileDPath

UrlAt(k) == IF k % 2 = 1 THEN Url1 ELSE Url2
GoodBatch(n) == [k \in 1..n |-> UrlAt(k)]
BadBatch(n) == [k \in 1..n |-> IF k = n THEN UrlNoId ELSE UrlAt(k)]
Batches == {GoodBatch(n) : n \in 0..MaxUrls} \cup {BadBatch(n) : n \in 1..MaxUrls}

RECURSIVE Join(_, _)
Join(batch, seps) ==
  IF batch = <<>> THEN <<>>
  ELSE IF Len(batch) = 1 THEN batch[1]
  ELSE batch[1] \o seps[(Len(batch) % Len(seps)) + 1] \o Join(Tail(batch), seps)

Prose == <<"s", "e", "e">>
\* The same link twice.
DupBatch == <<Url1, Url1>>
\* The <urls> argument of direct mode.
DirectInputs ==
  {Join(b, << <<",">>, <<"\n">>, <<" ", " ">> >>) : b \in Batches \cup {DupBatch}}
    \cup {Prose}
\* A line typed at the URL prompt (readline delivers no newline).
UrlLines ==
  {Join(b, << <<",", " ">>, <<" ">> >>) : b \in Batches} \cup {Prose, <<" ">>}

DotPdf == <<".", "p", "d", "f">>
OutputDirName == <<"o", "u", "t", "p", "u", "t">>
\* path.join(a, b)
PathJoin(a, b) == a \o <<"/">> \o b
\* The default of the -o option.
DefaultOutput == PathJoin(OutputDirName, <<"m", "e", "r", "g", "e", "d">> \o DotPdf)
CustomOutput == <<"o">> \o DotPdf
\* The value of an option that is not on the command line.
NotGiven == <<"undefined">>
NameA == <<"a">>
NameB == <<"b">>
\* A line typed at the filename prompt.
NameLines == {<<>>, <<" ">>, NameA, <<" ", "a">>, NameB}

\* Is the path inside the output directory?
InOutputDir(p) == OccursAt(p, OutputDirName \o <<"/">>, 1)

(***************************************************************************)
(* State.                                                                  *)
(***************************************************************************)
VARIABLES
  mode,         \* "direct" or "interactive"
  argv,         \* direct mode: the <urls> argument and the -o and -n options
  stdin,        \* the lines pasted on standard input: [chunks, at]
  pc,           \* the await the program is suspended at, or "exited"
  urlsInput,    \* interactive mode: the line read at the URL prompt
  urls,         \* the batch
  outputPath,
  dirs,         \* existing directories among "output" and "temp"
  files,        \* existing files apart from those of the temp directory
  tempFiles,    \* names of the files of the temp directory: [i, id]
  download,     \* content of the file at tempFilePath of the running iteration
  probes,       \* the promises of testUrlAccess: [done, result]
  settled,      \* the ordinals of the probes in the order they settled
  accessTests,
  i,            \* loop index of processFiles (0-based)
  fileId,       \* identifier of the file in processing
  pdfBuffers,
  failedFiles,
  error,        \* the error caught by the per-file catch
  mergedPdf,    \* pages of the accumulating document
  m,            \* position of mergePdfs in pdfBuffers
  exitCode,
  exitBy,       \* "return", "process.exit" or "SIGINT"
  \* History of the current attempt (since the last line read, or since the
  \* start in direct mode):
  console,      \* messages printed
  netReqs,      \* HTTP requests issued
  writes,       \* writes of the output file
  io,           \* file system calls made, and directories created
  fates         \* per URL: the file its download delivered and how it ended

vars ==
  <<mode, argv, stdin, pc, urlsInput, urls, outputPath, dirs, files, tempFiles, download,
    probes, settled, accessTests, i, fileId, pdfBuffers, failedFiles, error, mergedPdf, m,
    exitCode, exitBy, console, netReqs, writes, io, fates>>

inputVars == <<mode, argv, stdin>>
sessionVars == <<urlsInput, urls, outputPath>>
fsVars == <<dirs, files, tempFiles>>
loopVars == <<i, fileId, download, pdfBuffers, failedFiles, error>>
probeVars == <<probes, settled, accessTests>>
mergeVars == <<mergedPdf, m>>
exitVars == <<exitCode, exitBy>>

Msg(tag, index, err, url) == [tag |-> tag, index |-> index, error |-> err, url |-> url]
Note(tag) == Msg(tag, 0, NoErr, <<>>)

\* if (options.name): neither undefined nor the empty string
Truthy(value) == value \notin {NotGiven, <<>>}

\* Faulty variant: a path given with -o wins over -n.
OutputPathOfOutputFirst(options) ==
  IF options.output # DefaultOutput
    THEN options.output
  ELSE IF Truthy(options.name)
    THEN PathJoin(OutputDirName, options.name \o DotPdf)
    ELSE options.output

\* The output path of direct mode: -n wins over -o.
OutputPathOf(options) ==
  IF Truthy(options.name)
    THEN PathJoin(OutputDirName, options.name \o DotPdf)
    ELSE options.output

\* Standard input as a stream: the chunks of lines that arrive, each in one
\* 'data' event, and the index of the next chunk to arrive.  A user who
\* types one line at each prompt is modelled by the lines of AskUrls and
\* AskName, with nothing on the stream.
NoPaste == [chunks |-> <<>>, at |-> 1]

NoOptions == [urls |-> <<>>, output |-> DefaultOutput, name |-> NotGiven]

\* The command lines of direct mode: every <urls> argument with the default
\* options, every combination of -o and -n with a batch of two URLs, and
\* -n "" next to -o with that batch.
Invocations ==
  [urls : DirectInputs, output : {DefaultOutput}, name : {NotGiven}]
    \cup [urls : {Url1 \o <<",">> \o Url2}, output : {DefaultOutput, CustomOutput},
          name : {NotGiven, NameA}]
    \cup [urls : {Url1 \o <<",">> \o Url2}, output : {CustomOutput}, name : {<<>>}]

Fate(file, stage) == [file |-> file, stage |-> stage]

\* Direct mode starts with or without a file at the chosen output path; an
\* interactive session starts in an output directory that holds a.pdf, so
\* that one of the two names of NameLines collides and the other does not.
Init ==
  /\ mode \in {"direct", "interactive"}
  /\ argv \in IF mode = "direct" THEN Invocations ELSE {NoOptions}
  /\ stdin = NoPaste
  /\ dirs \in SUBSET {"output"}
  /\ files \in IF mode = "direct"
                 THEN {{}, {OutputPathOf(argv)}}
                 ELSE {{PathJoin(OutputDirName, NameA \o DotPdf)}}
  /\ \A p \in files : InOutputDir(p) => "output" \in dirs
  /\ pc = "start"
  /\ urlsInput = <<>>
  /\ urls = <<>>
  /\ outputPath = <<>>
  /\ tempFiles = {}
  /\ download = PartialFile
  /\ probes = <<>> /\ settled = <<>>
  /\ accessTests = <<>>
  /\ i = 0
  /\ fileId = <<>>
  /\ pdfBuffers = <<>>
  /\ failedFiles = <<>>
  /\ error = NoErr
  /\ mergedPdf = <<>>
  /\ m = 0
  /\ exitCode = 0
  /\ exitBy = "none"
  /\ console = <<>>
  /\ netReqs = {}
  /\ writes = <<>>
  /\ io = {}
  /\ fates = <<>>

\* process.exit(code): the process ends at once; no finally block runs.
ProcessExit(code) ==
  /\ pc' = "exited"
  /\ exitCode' = code
  /\ exitBy' = "process.exit"

\* The action handler returns and nothing is pending: exit status 0.
Return ==
  /\ pc' = "exited"
  /\ exitCode' = 0
  /\ exitBy' = "return"

Goto(label) == pc' = label /\ UNCHANGED exitVars

\* A file system call, or an effect of one, on a directory or a kind of file.
Op(name, target) == <<name, target>>

\* fs.ensureDir(dir): the call, and the mkdir when the directory is absent.
EnsureDir(dir) ==
  /\ dirs' = dirs \cup {dir}
  /\ io' = io \cup {Op("ensureDir", dir)}
               \cup (IF dir \in dirs THEN {} ELSE {Op("mkdir", dir)})

(***************************************************************************)
(* Direct mode.                                                            *)
(***************************************************************************)
\* Faulty variant: the checks on the number of URLs are missing.
DirectStartUnguarded ==
  /\ pc = "start" /\ mode = "direct"
  /\ urls' = parseUrls(argv.urls)
  /\ console' = console
  /\ Goto("d_ensureDir")
  /\ UNCHANGED <<inputVars, urlsInput, outputPath, fsVars, probeVars, loopVars,
                 mergeVars, netReqs, writes, io, fates>>

\* The action of the default command, up to `await fs.ensureDir(outputDir)`.
DirectStart ==
  /\ pc = "start" /\ mode = "direct"
  /\ urls' = parseUrls(argv.urls)
  /\ IF Len(urls') = 0
       THEN /\ console' = <<Note("usage")>>
            /\ ProcessExit(1)
     ELSE IF Len(urls') = 1
       THEN /\ console' = <<Note("single"), Msg("yourUrl", 1, NoErr, urls'[1])>>
            /\ Return
     ELSE /\ console' = console
          /\ Goto("d_ensureDir")
  /\ UNCHANGED <<inputVars, urlsInput, outputPath, fsVars, probeVars, loopVars,
                 mergeVars, netReqs, writes, io, fates>>

\* ensureDir(outputDir) completes; the output path is chosen.
DirectEnsureDir ==
  /\ pc = "d_ensureDir"
  /\ EnsureDir("output")
  /\ outputPath' = OutputPathOf(argv)
  /\ Goto("d_pathExists")
  /\ UNCHANGED <<inputVars, urlsInput, urls, files, tempFiles, probeVars, loopVars,
                 mergeVars, console, netReqs, writes, fates>>

\* Faulty variant: the result of pathExists is ignored.
DirectPathExistsIgnored ==
  /\ pc = "d_pathExists"
  /\ io' = io \cup {Op("pathExists", "output file")}
  /\ console' = console \o <<Msg("outputFile", 0, NoErr, outputPath)>>
  /\ Goto("p_ensureTemp")
  /\ UNCHANGED <<inputVars, sessionVars, fsVars, probeVars, loopVars, mergeVars,
                 netReqs, writes, fates>>

\* pathExists(outputPath) completes.
DirectPathExists ==
  /\ pc = "d_pathExists"
  /\ io' = io \cup {Op("pathExists", "output file")}
  /\ IF outputPath \in files
       THEN /\ console' = console \o <<Msg("outputExists", 0, NoErr, outputPath)>>
            /\ ProcessExit(1)
       ELSE /\ console' = console \o <<Msg("outputFile", 0, NoErr, outputPath)>>
            /\ Goto("p_ensureTemp")
  /\ UNCHANGED <<inputVars, sessionVars, fsVars, probeVars, loopVars, mergeVars,
                 netReqs, writes, fates>>

(***************************************************************************)
(* processFiles.                                                           *)
(***************************************************************************)
\* Faulty variant: the catch exits with status 0.
FatalWithStatus0(e) ==
  /\ console' = console \o <<Msg("error", 0, e, <<>>)>>
  /\ ProcessExit(0)

\* The catch of processFiles: console.error, then process.exit(1).
Fatal(e) ==
  /\ console' = console \o <<Msg("error", 0, e, <<>>)>>
  /\ ProcessExit(1)

PermissionError ==
  Err(<<"Permission check failed", " - please verify URL access and try again">>, <<>>)
AllFailedError ==
  Err(<<"All files failed to process - no PDF will be generated">>, <<>>)

Pending(url, index) ==
  [done |-> FALSE, result |-> ProbeResult(FALSE, url, index, <<>>, NoErr)]
Settled(result) == [done |-> TRUE, result |-> result]

\* A probe whose URL has no identifier settles without a request.
NoOutcome == Failure(0, "", <<>>)

Request(kind, index, id) ==
  [kind |-> kind, index |-> index, url |-> getDirectDownloadUrl(id)]

\* ensureDir(tempDir) completes; urls.map(testUrlAccess) starts every probe,
\* each running up to its axios call.
ProcessEnsureTemp ==
  /\ pc = "p_ensureTemp"
  /\ EnsureDir("temp")
  /\ probes' = [k \in 1..Len(urls) |->
                  IF extractFileId(urls[k]).ok
                    THEN Pending(urls[k], k)
                    ELSE Settled(testUrlAccess(urls[k], k, NoOutcome))]
  /\ netReqs' = netReqs \cup
       {Request("probe", k, extractFileId(urls[k]).id) :
          k \in {j \in 1..Len(urls) : extractFileId(urls[j]).ok}}
  /\ settled' = SelectSeq([k \in 1..Len(urls) |-> k], LAMBDA k : ~extractFileId(urls[k]).ok)
  /\ fates' = [k \in 1..Len(urls) |-> Fate(PartialFile, "pending")]
  /\ Goto("p_probing")
  /\ UNCHANGED <<inputVars, sessionVars, files, tempFiles, accessTests, loopVars,
                 mergeVars, console, writes>>

\* The request of probe k ends; testUrlAccess returns its record.
ProbeComplete(k, outcome) ==
  /\ pc = "p_probing"
  /\ k \in 1..Len(probes)
  /\ ~probes[k].done
  /\ probes' = [probes EXCEPT ![k] = Settled(testUrlAccess(urls[k], k, outcome))]
  /\ settled' = Append(settled, k)
  /\ UNCHANGED <<inputVars, pc, sessionVars, fsVars, accessTests, loopVars, mergeVars,
                 exitVars, console, netReqs, writes, io, fates>>

\* The printed report of the access gate.
GateReport(failedUrls) ==
  <<Msg("accessIssues", Len(failedUrls), NoErr, <<>>)>>
    \o [k \in 1..Len(failedUrls) |->
          Msg("accessIssue", failedUrls[k].index, failedUrls[k].error, failedUrls[k].url)]
    \o <<Note("permissionCheckFailed")>>
    \o [k \in 1..Len(failedUrls) |-> Msg("failedUrl", 0, NoErr, failedUrls[k].url)]

\* Faulty variant: a failing probe rejects, and Promise.all with it, while
\* other probes are pending.
ProbeJoinRejectsEarly ==
  /\ pc = "p_probing"
  /\ \E k \in 1..Len(probes) : probes[k].done /\ ~probes[k].result.success
  /\ Fatal(PermissionError)
  /\ UNCHANGED <<inputVars, sessionVars, fsVars, probeVars, loopVars, mergeVars, netReqs,
                 writes, io, fates>>

\* Faulty variant: the results are aggregated in the order the probes settled.
ProbeJoinInSettledOrder ==
  /\ pc = "p_probing"
  /\ \A k \in 1..Len(probes) : probes[k].done
  /\ accessTests' = [k \in 1..Len(probes) |-> probes[settled[k]].result]
  /\ LET failedUrls == FailedUrls(accessTests')
     IN IF Len(failedUrls) > 0
          THEN /\ console' = console \o GateReport(failedUrls)
                               \o <<Msg("error", 0, PermissionError, <<>>)>>
               /\ settled' = settled
               /\ ProcessExit(1)
          ELSE /\ console' = console
               /\ settled' = <<>>
               /\ Goto("p_loop")
  /\ UNCHANGED <<inputVars, sessionVars, fsVars, probes, loopVars, mergeVars, netReqs,
                 writes, io, fates>>

\* Promise.all resolves: the gate.  The settling order of the promises is
\* history once the loop is entered.
ProbeJoin ==
  /\ pc = "p_probing"
  /\ \A k \in 1..Len(probes) : probes[k].done
  /\ accessTests' = [k \in 1..Len(probes) |-> probes[k].result]
  /\ LET failedUrls == FailedUrls(accessTests')
     IN IF Len(failedUrls) > 0
          THEN /\ console' = console \o GateReport(failedUrls)
                               \o <<Msg("error", 0, PermissionError, <<>>)>>
               /\ settled' = settled
               /\ ProcessExit(1)
          ELSE /\ console' = console
               /\ settled' = <<>>
               /\ Goto("p_loop")
  /\ UNCHANGED <<inputVars, sessionVars, fsVars, probes, loopVars, mergeVars, netReqs,
                 writes, io, fates>>

\* path.join(tempDir, `file_${i}_${fileId}`)
TempFile(index, id) == [i |-> index, id |-> id]

SetStage(stage) == fates' = [fates EXCEPT ![i + 1].stage = stage]

\* Head of the loop body: identifier, download URL, the download request.
LoopBody ==
  /\ pc = "p_loop"
  /\ i < Len(urls)
  /\ LET id == extractFileId(urls[i + 1])
     IN IF id.ok
          THEN /\ fileId' = id.id
               /\ netReqs' = netReqs \cup {Request("download", i + 1, id.id)}
               /\ UNCHANGED <<error, fates>>
               /\ Goto("p_download")
          ELSE /\ error' = id.error
               /\ SetStage("identifier")
               /\ UNCHANGED <<fileId, netReqs>>
               /\ Goto("p_catch")
  /\ UNCHANGED <<inputVars, sessionVars, fsVars, probeVars, i, download, pdfBuffers,
                 failedFiles, mergeVars, console, writes, io>>

\* downloadFile resolves: the whole file is at tempFilePath.
DownloadOk(file) ==
  /\ pc = "p_download"
  /\ tempFiles' = tempFiles \cup {TempFile(i, fileId)}
  /\ download' = file
  /\ io' = io \cup {Op("createWriteStream", "temp file")}
  /\ fates' = [fates EXCEPT ![i + 1].file = file]
  /\ Goto("p_sniff")
  /\ UNCHANGED <<inputVars, sessionVars, dirs, files, probeVars, i, fileId,
                 pdfBuffers, failedFiles, error, mergeVars, console, netReqs, writes>>

\* axios rejects: nothing is written.
DownloadFail ==
  /\ pc = "p_download"
  /\ error' = Wrap("Failed to download file: ",
                   Err(<<"Request failed with status code 404">>, <<>>))
  /\ SetStage("download")
  /\ Goto("p_catch")
  /\ UNCHANGED <<inputVars, sessionVars, fsVars, probeVars, i, fileId, download,
                 pdfBuffers, failedFiles, mergeVars, console, netReqs, writes, io>>

\* The write stream fails part-way: a partial file is left behind.
DownloadStreamError ==
  /\ pc = "p_download"
  /\ tempFiles' = tempFiles \cup {TempFile(i, fileId)}
  /\ download' = PartialFile
  /\ io' = io \cup {Op("createWriteStream", "temp file")}
  /\ error' = Err(<<"ENOSPC: no space left on device, write">>, <<>>)
  /\ SetStage("download")
  /\ Goto("p_catch")
  /\ UNCHANGED <<inputVars, sessionVars, dirs, files, probeVars, i, fileId,
                 pdfBuffers, failedFiles, mergeVars, console, netReqs, writes>>

\* getFileType(tempFilePath) settles.
Sniff ==
  /\ pc = "p_sniff"
  /\ io' = io \cup {Op("readFile", "temp file")}
  /\ LET t == getFileType(download.bytes)
     IN IF ~t.ok
          THEN /\ error' = t.error
               /\ SetStage("sniff")
               /\ Goto("p_catch")
        ELSE IF t.type = "pdf"
          THEN /\ UNCHANGED <<error, fates>>
               /\ Goto("p_readPdf")
        ELSE /\ UNCHANGED <<error, fates>>
             /\ Goto("p_convert")
  /\ UNCHANGED <<inputVars, sessionVars, fsVars, probeVars, i, fileId, download,
                 pdfBuffers, failedFiles, mergeVars, console, netReqs, writes>>

\* fs.readFile(tempFilePath) of a PDF; the buffer is pushed.
ReadPdf ==
  /\ pc = "p_readPdf"
  /\ pdfBuffers' = Append(pdfBuffers, Buffer(i + 1, download.pages, download.loadable))
  /\ SetStage("ok")
  /\ Goto("p_remove")
  /\ UNCHANGED <<inputVars, sessionVars, fsVars, probeVars, i, fileId, download,
                 failedFiles, error, mergeVars, console, netReqs, writes, io>>

\* imageToPdf(tempFilePath) settles; on success the buffer is pushed.
Convert ==
  /\ pc = "p_convert"
  /\ LET r == imageToPdf(download, i + 1)
     IN IF r.ok
          THEN /\ pdfBuffers' = Append(pdfBuffers, r.buffer)
               /\ error' = error
               /\ SetStage("ok")
               /\ Goto("p_remove")
          ELSE /\ pdfBuffers' = pdfBuffers
               /\ error' = r.error
               /\ SetStage("convert")
               /\ Goto("p_catch")
  /\ UNCHANGED <<inputVars, sessionVars, fsVars, probeVars, i, fileId, download,
                 failedFiles, mergeVars, console, netReqs, writes, io>>

RemoveError == Err(<<"EBUSY: resource busy or locked, rm">>, <<>>)

\* fs.remove(tempFilePath) succeeds; the iteration ends.
RemoveTemp ==
  /\ pc = "p_remove"
  /\ tempFiles' = tempFiles \ {TempFile(i, fileId)}
  /\ io' = io \cup {Op("remove", "temp file")}
  /\ console' = console \o <<Msg("fileOk", i + 1, NoErr, <<>>)>>
  /\ i' = i + 1
  /\ Goto("p_loop")
  /\ UNCHANGED <<inputVars, sessionVars, dirs, files, probeVars, fileId, download,
                 pdfBuffers, failedFiles, error, mergeVars, netReqs, writes, fates>>

\* fs.remove(tempFilePath) fails, after the buffer was pushed.
RemoveTempFail ==
  /\ pc = "p_remove"
  /\ io' = io \cup {Op("remove", "temp file"), Op("remove failed", "temp file")}
  /\ error' = RemoveError
  /\ SetStage("remove")
  /\ Goto("p_catch")
  /\ UNCHANGED <<inputVars, sessionVars, fsVars, probeVars, i, fileId, download,
                 pdfBuffers, failedFiles, mergeVars, console, netReqs, writes>>

FailedFile(url, index, e) == [url |-> url, index |-> index, error |-> e]

\* Faulty variant: the per-file catch rethrows, so the first failure ends
\* the attempt.
CatchRethrows ==
  /\ pc = "p_catch"
  /\ Fatal(error)
  /\ UNCHANGED <<inputVars, sessionVars, fsVars, probeVars, loopVars, mergeVars,
                 netReqs, writes, io, fates>>

\* The per-file catch: the failure is printed and recorded, then the
\* cleanup recomputes tempFilePath.
Catch ==
  /\ pc = "p_catch"
  /\ console' = console \o <<Msg("fileFailed", i + 1, error, <<>>)>>
  /\ failedFiles' = Append(failedFiles, FailedFile(urls[i + 1], i + 1, error))
  /\ IF extractFileId(urls[i + 1]).ok
       THEN /\ i' = i
            /\ Goto("p_cleanup")
       ELSE /\ i' = i + 1
            /\ Goto("p_loop")
  /\ UNCHANGED <<inputVars, sessionVars, fsVars, probeVars, fileId, download,
                 pdfBuffers, error, mergeVars, netReqs, writes, io, fates>>

\* Faulty variant: the catch moves on without the cleanup.
CleanupSkipped ==
  /\ pc = "p_cleanup"
  /\ i' = i + 1
  /\ Goto("p_loop")
  /\ UNCHANGED <<inputVars, sessionVars, fsVars, probeVars, fileId, download,
                 pdfBuffers, failedFiles, error, mergeVars, console, netReqs, writes,
                 io, fates>>

\* The cleanup fs.remove(tempFilePath) succeeds (also when nothing is there).
Cleanup ==
  /\ pc = "p_cleanup"
  /\ tempFiles' = tempFiles \ {TempFile(i, extractFileId(urls[i + 1]).id)}
  /\ io' = io \cup {Op("remove", "temp file")}
  /\ i' = i + 1
  /\ Goto("p_loop")
  /\ UNCHANGED <<inputVars, sessionVars, dirs, files, probeVars, fileId, download,
                 pdfBuffers, failedFiles, error, mergeVars, console, netReqs, writes,
                 fates>>

\* The cleanup fs.remove fails on a file that is there; the error is ignored.
CleanupFail ==
  /\ pc = "p_cleanup"
  /\ TempFile(i, extractFileId(urls[i + 1]).id) \in tempFiles
  /\ io' = io \cup {Op("remove", "temp file"), Op("remove failed", "temp file")}
  /\ i' = i + 1
  /\ Goto("p_loop")
  /\ UNCHANGED <<inputVars, sessionVars, fsVars, probeVars, fileId, download,
                 pdfBuffers, failedFiles, error, mergeVars, console, netReqs, writes,
                 fates>>

\* The summary printed when some files failed and some did not.
Summary ==
  IF Len(failedFiles) > 0
    THEN <<Msg("someFailed", Len(failedFiles), NoErr, <<>>)>>
           \o [k \in 1..Len(failedFiles) |->
                 Msg("failedSummary", failedFiles[k].index, failedFiles[k].error, <<>>)]
           \o <<Msg("continuing", Len(pdfBuffers), NoErr, <<>>)>>
    ELSE <<>>

\* Faulty variant: mergePdfs is called whatever the number of buffers.
LoopExitAlwaysMerges ==
  /\ pc = "p_loop"
  /\ i >= Len(urls)
  /\ console' = console \o Summary
  /\ Goto("m_load")
  /\ UNCHANGED <<inputVars, sessionVars, fsVars, probeVars, loopVars, mergeVars,
                 netReqs, writes, io, fates>>

\* Faulty variant: the loop may be left after its first iteration.
LoopExitAfterFirst ==
  /\ pc = "p_loop"
  /\ i >= 1
  /\ IF Len(pdfBuffers) = 0
       THEN /\ console' = console \o <<Msg("error", 0, AllFailedError, <<>>)>>
            /\ ProcessExit(1)
       ELSE /\ console' = console \o Summary
            /\ Goto("m_load")
  /\ UNCHANGED <<inputVars, sessionVars, fsVars, probeVars, loopVars, mergeVars,
                 netReqs, writes, io, fates>>

\* After the loop: all failed, or mergePdfs is called.
LoopExit ==
  /\ pc = "p_loop"
  /\ i >= Len(urls)
  /\ IF Len(pdfBuffers) = 0
       THEN /\ console' = console
                 \o <<Note("noneProcessed")>>
                 \o [k \in 1..Len(failedFiles) |->
                       Msg("failedFile", failedFiles[k].index, failedFiles[k].error,
                           failedFiles[k].url)]
                 \o <<Msg("error", 0, AllFailedError, <<>>)>>
            /\ ProcessExit(1)
       ELSE /\ console' = console \o Summary
            /\ Goto("m_load")
  /\ UNCHANGED <<inputVars, sessionVars, fsVars, probeVars, loopVars, mergeVars,
                 netReqs, writes, io, fates>>

(***************************************************************************)
(* mergePdfs.                                                              *)
(***************************************************************************)
MergeError(e) == Wrap("Failed to merge PDFs: ", e)

\* The loop of mergePdfs from buffer k on: load, copyPages, addPage for each
\* buffer in order, stopping at the first one PDFDocument.load rejects.
\* [ok, pages, at]: the accumulated pages and the position reached.
RECURSIVE MergeFrom(_, _, _)
MergeFrom(buffers, k, merged) ==
  IF k > Len(buffers) THEN [ok |-> TRUE, pages |-> merged, at |-> k]
  ELSE IF ~buffers[k].loadable THEN [ok |-> FALSE, pages |-> merged, at |-> k]
  ELSE MergeFrom(buffers, k + 1, AddPages(merged, buffers[k]))

\* mergePdfs up to mergedPdf.save(): the loop over pdfBuffers.
MergeLoad ==
  /\ pc = "m_load"
  /\ LET r == MergeFrom(pdfBuffers, 1, <<>>)
     IN /\ mergedPdf' = r.pages
        /\ m' = r.at
        /\ IF r.ok
             THEN /\ console' = console
                  /\ Goto("m_write")
             ELSE Fatal(MergeError(Err(<<"Failed to parse PDF document">>, <<>>)))
  /\ UNCHANGED <<inputVars, sessionVars, fsVars, probeVars, loopVars, netReqs, writes,
                 io, fates>>

Write(path, pages, existed) == [path |-> path, pages |-> pages, existed |-> existed]

\* mergedPdf.save() and fs.writeFile(outputPath, pdfBytes) succeed.
MergeWrite ==
  /\ pc = "m_write"
  /\ writes' = Append(writes, Write(outputPath, mergedPdf, outputPath \in files))
  /\ files' = files \cup {outputPath}
  /\ io' = io \cup {Op("writeFile", "output file"), Op("open", "output file")}
  /\ console' = console \o <<Msg("merged", 0, NoErr, outputPath)>>
  /\ Goto("p_finally")
  /\ UNCHANGED <<inputVars, sessionVars, dirs, tempFiles, probeVars, loopVars,
                 mergeVars, netReqs, fates>>

\* fs.writeFile fails: before the file is opened (nothing is there), or
\* while the bytes are written to the file it has opened with flag 'w' (a
\* truncated file is there).
MergeWriteFail ==
  /\ pc = "m_write"
  /\ \E opened \in BOOLEAN :
       /\ files' = IF opened THEN files \cup {outputPath} ELSE files
       /\ io' = io \cup {Op("writeFile", "output file")}
                    \cup (IF opened THEN {Op("open", "output file")} ELSE {})
  /\ Fatal(MergeError(Err(<<"ENOSPC: no space left on device, write">>, <<>>)))
  /\ UNCHANGED <<inputVars, sessionVars, dirs, tempFiles, probeVars, loopVars, mergeVars,
                 netReqs, writes, fates>>

\* The locals of processFiles and of the loop body of runInteractiveMode go
\* out of scope.
DropLocals ==
  /\ urlsInput' = <<>>
  /\ urls' = <<>>
  /\ outputPath' = <<>>
  /\ probes' = <<>>
  /\ settled' = <<>>
  /\ accessTests' = <<>>
  /\ i' = 0
  /\ fileId' = <<>>
  /\ download' = PartialFile
  /\ pdfBuffers' = <<>>
  /\ failedFiles' = <<>>
  /\ error' = NoErr
  /\ mergedPdf' = <<>>
  /\ m' = 0
  /\ fates' = <<>>

\* finally: fs.remove(tempDir) succeeds and processFiles returns to its
\* caller, which ends (direct mode) or starts the next round.
Finally ==
  /\ pc = "p_finally"
  /\ dirs' = dirs \ {"temp"}
  /\ tempFiles' = {}
  /\ io' = io \cup {Op("remove", "temp")}
  /\ IF mode = "direct"
       THEN /\ Return
            /\ console' = console
            /\ UNCHANGED <<sessionVars, probeVars, loopVars, mergeVars, fates>>
       ELSE /\ Goto("i_askUrls")
            /\ console' = console \o <<Note("success")>>
            /\ DropLocals
  /\ UNCHANGED <<inputVars, files, netReqs, writes>>

RemoveDirError == Err(<<"EBUSY: resource busy or locked, rmdir">>, <<>>)

\* The catch of the loop of runInteractiveMode.
InteractiveCatch(e) ==
  <<Msg("errorOccurred", 0, e, <<>>),
    Note(IF Mentions(e, "Permission check failed") THEN "checkUrls" ELSE "tryAgain")>>

\* finally: fs.remove(tempDir) fails; processFiles rejects and the caller's
\* catch runs.
FinallyFail ==
  /\ pc = "p_finally"
  /\ io' = io \cup {Op("remove", "temp")}
  /\ IF mode = "direct"
       THEN /\ Fatal(RemoveDirError)
            /\ UNCHANGED <<sessionVars, probeVars, loopVars, mergeVars, fates>>
       ELSE /\ console' = console \o InteractiveCatch(RemoveDirError)
            /\ Goto("i_askUrls")
            /\ DropLocals
  /\ UNCHANGED <<inputVars, fsVars, netReqs, writes>>

(***************************************************************************)
(* Interactive mode.                                                       *)
(***************************************************************************)
\* runInteractiveMode up to the first prompt: ensureDir(outputDir).
InteractiveStart ==
  /\ pc = "start" /\ mode = "interactive"
  /\ EnsureDir("output")
  /\ Goto("i_askUrls")
  /\ UNCHANGED <<inputVars, sessionVars, files, tempFiles, probeVars, loopVars,
                 mergeVars, console, netReqs, writes, fates>>

\* A line arrives at the URL prompt: one pass of the `while (urls.length === 0)`
\* loop.  The history starts afresh with the line.
AskUrls(line) ==
  /\ pc = "i_askUrls"
  /\ netReqs' = {}
  /\ writes' = <<>>
  /\ io' = {}
  /\ urlsInput' = Trim(line)
  /\ LET parsed == parseUrls(urlsInput')
     IN IF Trim(urlsInput') = <<>>
          THEN /\ console' = <<Note("noInput")>>
               /\ urls' = <<>>
               /\ Goto("i_askUrls")
        ELSE IF Len(parsed) = 0
          THEN /\ console' = <<Note("noValidUrls")>>
               /\ urls' = parsed
               /\ Goto("i_askUrls")
        ELSE IF Len(parsed) = 1
          THEN /\ console' = <<Note("single")>>
               /\ urls' = <<>>
               /\ Goto("i_askUrls")
        ELSE /\ console' = <<Msg("found", Len(parsed), NoErr, <<>>)>>
             /\ urls' = parsed
             /\ Goto("i_askName")
  /\ UNCHANGED <<mode, argv, outputPath, fsVars, probeVars, loopVars, mergeVars, fates>>

\* Faulty variant: a name is accepted as it comes, empty or not.
AskNameUnchecked(line) ==
  /\ pc = "i_askName"
  /\ console' = <<>>
  /\ outputPath' = PathJoin(OutputDirName, Trim(line) \o DotPdf)
  /\ Goto("i_pathExists")
  /\ UNCHANGED <<mode, argv, urlsInput, urls, fsVars, probeVars, loopVars, mergeVars,
                 netReqs, writes, io, fates>>

\* A line arrives at the filename prompt.  The console is kept from the last
\* prompt on.
AskName(line) ==
  /\ pc = "i_askName"
  /\ IF Trim(line) = <<>>
       THEN /\ console' = <<Note("noFilename")>>
            /\ outputPath' = outputPath
            /\ Goto("i_askName")
       ELSE /\ console' = <<>>
            /\ outputPath' = PathJoin(OutputDirName, Trim(line) \o DotPdf)
            /\ Goto("i_pathExists")
  /\ UNCHANGED <<mode, argv, urlsInput, urls, fsVars, probeVars, loopVars, mergeVars,
                 netReqs, writes, io, fates>>

\* pathExists(outputPath) completes: ask again, or call processFiles.
InteractivePathExists ==
  /\ pc = "i_pathExists"
  /\ io' = io \cup {Op("pathExists", "output file")}
  /\ IF outputPath \in files
       THEN /\ console' = console \o <<Msg("nameExists", 0, NoErr, outputPath)>>
            /\ Goto("i_askName")
       ELSE /\ console' = console
            /\ Goto("p_ensureTemp")
  /\ UNCHANGED <<inputVars, sessionVars, fsVars, probeVars, loopVars, mergeVars,
                 netReqs, writes, fates>>

(***************************************************************************)
(* The environment.                                                        *)
(***************************************************************************)
\* Ctrl+C: the process is killed by the signal.  Its memory is gone; the
\* file system stays as it is.
Interrupt ==
  /\ pc # "exited"
  /\ pc' = "exited"
  /\ exitCode' = 130
  /\ exitBy' = "SIGINT"
  /\ DropLocals
  /\ console' = <<>>
  /\ netReqs' = {}
  /\ io' = {}
  /\ UNCHANGED <<inputVars, fsVars, writes>>

\* Another process creates a file at the chosen output path.  The program
\* looks at that path twice, in pathExists and in writeFile: a file that
\* exists before pathExists is a file of Init (or of an earlier round), and a
\* file created at any moment after it is seen by the program as one
\* created right before writeFile.
ExternalCreate ==
  /\ pc = "m_write"
  /\ outputPath \notin files
  /\ files' = files \cup {outputPath}
  /\ UNCHANGED <<inputVars, pc, sessionVars, dirs, tempFiles, probeVars, loopVars,
                 mergeVars, exitVars, console, netReqs, writes, io, fates>>

Next ==
  \/ DirectStart
  \/ DirectEnsureDir
  \/ DirectPathExists
  \/ ProcessEnsureTemp
  \/ \E k \in 1..MaxUrls, outcome \in ProbeOutcomes : ProbeComplete(k, outcome)
  \/ ProbeJoin
  \/ LoopBody
  \/ \E file \in RemoteFiles : DownloadOk(file)
  \/ DownloadFail
  \/ DownloadStreamError
  \/ Sniff
  \/ ReadPdf
  \/ Convert
  \/ RemoveTemp
  \/ RemoveTempFail
  \/ Catch
  \/ Cleanup
  \/ CleanupFail
  \/ LoopExit
  \/ MergeLoad
  \/ MergeWrite
  \/ MergeWriteFail
  \/ Finally
  \/ FinallyFail
  \/ InteractiveStart
  \/ \E line \in UrlLines : AskUrls(line) /\ UNCHANGED stdin
  \/ \E line \in NameLines : AskName(line) /\ UNCHANGED stdin
  \/ InteractivePathExists
  \/ Interrupt
  \/ ExternalCreate

Spec == Init /\ [][Next]_vars

(***************************************************************************)
(* Properties.                                                             *)
(***************************************************************************)
\* Ordinals of the probes that have settled with success = false / true.
FailingProbes == {k \in 1..Len(probes) : probes[k].done /\ ~probes[k].result.success}
SucceedingProbes == {k \in 1..Len(probes) : probes[k].done /\ probes[k].result.success}

IsAccessIssue(msg) == msg.tag = "accessIssue"
\* The entries of the failure report of the access gate.
AccessIssues == SelectSeq(console, IsAccessIssue)

\* The attempt ended in the catch of processFiles.
EndedFatally == pc = "exited" /\ exitBy = "process.exit" /\ exitCode = 1

\* C1 (access gate): once a probe of the batch has failed, no download
\* request is ever issued for any URL of the batch, no temp file is opened
\* and the loop is never entered; when all probes have settled the attempt fails (process.exit(1)),
\* and the report then has exactly one entry per failing URL, carrying that
\* URL, its ordinal and the reason its own probe gave, in input order, and
\* no entry for a URL whose probe succeeded.
AccessGate ==
  FailingProbes # {} =>
    /\ \A r \in netReqs : r.kind # "download"
    /\ Op("createWriteStream", "temp file") \notin io
    /\ pdfBuffers = <<>> /\ writes = <<>>
    /\ pc \in {"p_probing", "exited"}
    /\ pc = "exited" =>
         /\ EndedFatally
         /\ console[Len(console)] = Msg("error", 0, PermissionError, <<>>)
         /\ Len(AccessIssues) = Cardinality(FailingProbes)
         /\ \A k \in FailingProbes :
              \E j \in 1..Len(AccessIssues) :
                AccessIssues[j] = Msg("accessIssue", k, probes[k].result.error, urls[k])
         /\ \A j \in 1..Len(AccessIssues) : AccessIssues[j].index \in FailingProbes
         /\ \A j \in 1..Len(AccessIssues) - 1 :
              AccessIssues[j].index < AccessIssues[j + 1].index

\* A batch of two or more was rejected with one probe failed and one passed.
AccessGateWitness ==
  /\ EndedFatally
  /\ Len(probes) >= 2
  /\ FailingProbes # {} /\ SucceedingProbes # {}
  /\ Len(AccessIssues) = Cardinality(FailingProbes)

\* Ordinals of the URLs by how their iteration ended.
FailedInLoop == {k \in 1..Len(fates) : fates[k].stage \in {"download", "sniff", "convert"}}
Succeeded == {k \in 1..Len(fates) : fates[k].stage = "ok"}
Pushed == {k \in 1..Len(fates) : fates[k].stage \in {"ok", "remove"}}

\* The loop of processFiles is over, the batch had passed the gate.
LoopDone ==
  /\ pc \in {"m_load", "m_write", "p_finally"} \/ (pc = "exited" /\ exitBy # "SIGINT")
  /\ Len(urls) >= 2
  /\ Len(accessTests) = Len(urls)
  /\ \A k \in 1..Len(accessTests) : accessTests[k].success

\* One file failed in download, sniffing or conversion and another succeeded.
PartialFailure == LoopDone /\ FailedInLoop # {} /\ Succeeded # {}

\* The pages of the buffers of the given ordinals, in ascending order of
\* ordinal, as the downloads delivered them.
RECURSIVE PagesOf(_, _)
PagesOf(from, S) ==
  IF from > Len(fates) THEN <<>>
  ELSE (IF from \in S
          THEN [j \in 1..(IF fates[from].file.decode = "ok" THEN 1 ELSE fates[from].file.pages)
                  |-> <<from, j>>]
          ELSE <<>>) \o PagesOf(from + 1, S)

\* The merge phase or the removal of the temp directory failed.
MergePhaseFailed ==
  \/ m \in 1..Len(pdfBuffers) /\ ~pdfBuffers[m].loadable
  \/ Op("writeFile", "output file") \in io /\ writes = <<>>
  \/ mode = "direct" /\ writes # <<>> /\ "temp" \in dirs

SinglePageFiles == {PdfFile(1), PngFile}
AllSinglePages ==
  /\ Len(urls) >= 2
  /\ Len(fates) = Len(urls)
  /\ \A k \in 1..Len(fates) : fates[k].stage = "ok" /\ fates[k].file \in SinglePageFiles

\* C3 (end-to-end page order): for a batch of N >= 2 URLs whose files are
\* one-page PDFs and images, all processed without failure, the document
\* handed to writeFile, and every output written, has exactly N pages and its
\* page k comes from the k-th URL of the input.
PageOrder ==
  AllSinglePages =>
    /\ pc \in {"m_write", "p_finally"} =>
         Len(mergedPdf) = Len(urls) /\ \A k \in 1..Len(urls) : mergedPdf[k][1] = k
    /\ \A j \in 1..Len(writes) :
         /\ Len(writes[j].pages) = Len(urls)
         /\ \A k \in 1..Len(urls) : writes[j].pages[k][1] = k

\* An image and a one-page PDF were merged and written.
PageOrderWitness ==
  /\ AllSinglePages
  /\ Len(writes) = 1
  /\ \E k \in 1..Len(fates) : fates[k].file = PngFile
  /\ \E k \in 1..Len(fates) : fates[k].file = PdfFile(1)

\* Number of pages of the buffers before position b.
RECURSIVE Offset(_, _)
Offset(buffers, b) ==
  IF b <= 1 THEN 0 ELSE Offset(buffers, b - 1) + Len(buffers[b - 1].pages)

\* The loop of mergePdfs has gone through all of pdfBuffers.
MergeLoopDone == pdfBuffers # <<>> /\ m = Len(pdfBuffers) + 1

\* C4 (merger invariant): when mergePdfs has loaded every buffer it was
\* given, the accumulated document has as many pages as the buffers
\* together, and page j of buffer b is at position (pages of the buffers
\* before b) + j: nothing dropped, duplicated or reordered; what writeFile
\* writes is that document.
MergerInvariant ==
  MergeLoopDone =>
    /\ \A b \in 1..Len(pdfBuffers) : pdfBuffers[b].loadable
    /\ Len(mergedPdf) = Offset(pdfBuffers, Len(pdfBuffers) + 1)
    /\ \A b \in 1..Len(pdfBuffers) :
         \A j \in 1..Len(pdfBuffers[b].pages) :
           mergedPdf[Offset(pdfBuffers, b) + j] = pdfBuffers[b].pages[j]
    /\ \A j \in 1..Len(writes) : writes[j].pages = mergedPdf

\* A buffer of MaxPages pages followed by another buffer was merged and
\* written.
MergerInvariantWitness ==
  /\ MergeLoopDone
  /\ Len(pdfBuffers) >= 2
  /\ Len(pdfBuffers[1].pages) = MaxPages
  /\ Len(writes) = 1

\* parseUrls of every <urls> argument and of every trimmed line of the model.
ParsedArgument == [u \in {a.urls : a \in Invocations} |-> parseUrls(u)]
ParsedLine == [l \in {Trim(x) : x \in UrlLines} \cup {<<>>} |-> parseUrls(l)]

\* The process has run past its start and was not interrupted.
Ran == pc # "start" /\ exitBy # "SIGINT"

\* C5 (single URL): when the extraction yields exactly one URL, valid or
\* not, direct mode returns with exit status 0 after printing the notice,
\* and interactive mode prints the notice and stays at the URL prompt; in
\* both no request is issued, no file system call is made and nothing is
\* written.
SingleUrl ==
  /\ (mode = "direct" /\ Ran /\ Len(ParsedArgument[argv.urls]) = 1) =>
       /\ pc = "exited" /\ exitBy = "return" /\ exitCode = 0
       /\ console = <<Note("single"), Msg("yourUrl", 1, NoErr, ParsedArgument[argv.urls][1])>>
       /\ netReqs = {} /\ io = {} /\ writes = <<>> /\ tempFiles = {}
  /\ (mode = "interactive" /\ Len(ParsedLine[urlsInput]) = 1) =>
       /\ pc = "i_askUrls" /\ exitBy = "none"
       /\ console = <<Note("single")>>
       /\ urls = <<>>
       /\ netReqs = {} /\ io = {} /\ writes = <<>>

\* Direct mode was given one link that carries no identifier and returned.
SingleUrlWitness ==
  /\ mode = "direct" /\ pc = "exited" /\ exitBy = "return"
  /\ ParsedArgument[argv.urls] = <<UrlNoId>>
  /\ ~extractFileId(urls[1]).ok

\* C6 (zero URLs): when the extraction of the <urls> argument yields no URL,
\* direct mode prints the usage text and exits with status 1, having made no
\* file system call (no ensureDir, no mkdir, no pathExists) and issued no
\* request.
ZeroUrls ==
  (mode = "direct" /\ Ran /\ Len(ParsedArgument[argv.urls]) = 0) =>
    /\ EndedFatally
    /\ console = <<Note("usage")>>
    /\ io = {} /\ netReqs = {} /\ writes = <<>> /\ tempFiles = {}
    /\ outputPath = <<>>

\* Direct mode was given prose without a link and exited with the usage text.
ZeroUrlsWitness ==
  /\ mode = "direct" /\ EndedFatally
  /\ argv.urls = Prose
  /\ urls = <<>>
  /\ console = <<Note("usage")>>

\* The step of direct mode that follows pathExists when the output path
\* exists (an interrupt aside).
CollisionStep ==
  /\ mode = "direct" /\ pc = "d_pathExists" /\ Len(urls) >= 2
  /\ outputPath \in files
  /\ pc' # pc /\ exitBy' # "SIGINT"

\* What holds after the collision in any case: exit status 1, no request,
\* no temp directory, no file created or written.
CollisionFails ==
  /\ pc' = "exited" /\ exitBy' = "process.exit" /\ exitCode' = 1
  /\ netReqs' = {} /\ writes' = <<>>
  /\ files' = files /\ tempFiles' = {} /\ "temp" \notin dirs'
  /\ console'[Len(console')] = Msg("outputExists", 0, NoErr, outputPath)

\* C7 (direct-mode collision, amended): direct mode with two or more URLs
\* and an output path that exists exits with status 1 before any probe or
\* download and creates or writes no file; the only thing it may have
\* created is the output directory, which ensureDir makes before the
\* existence check.
DirectCollision ==
  [][CollisionStep =>
       /\ CollisionFails
       /\ \A op \in io' : op[1] = "mkdir" => op[2] = "output"]_vars

\* The collision was found and the output directory had been created on the
\* way.
DirectCollisionWitness ==
  /\ mode = "direct" /\ EndedFatally
  /\ console # <<>> /\ console[Len(console)].tag = "outputExists"
  /\ Op("mkdir", "output") \in io
  /\ outputPath = CustomOutput

\* C7 as stated: nothing is created, no directory either.
DirectCollisionAsStated ==
  [][CollisionStep =>
       /\ CollisionFails
       /\ \A op \in io' : op[1] # "mkdir"]_vars

\* C8 as stated: no write of the output replaces a file that existed at
\* the path right before the write.
NoOverwrite == \A j \in 1..Len(writes) : ~writes[j].existed

\* C9 as stated: an interactive session ends on an interrupt only.
InteractiveNeverEnds == (mode = "interactive" /\ pc = "exited") => exitBy = "SIGINT"

\* C10 as stated: in interactive mode the step in which the gate rejects the
\* batch leads to the URL prompt.
InteractiveGateRejection ==
  [][(mode = "interactive" /\ pc = "p_probing" /\ pc' # pc /\ exitBy' # "SIGINT"
        /\ \E k \in 1..Len(probes) : ~probes[k].result.success)
       => pc' = "i_askUrls"]_vars

\* The attempt is over: processFiles has ended the process, or returned to
\* the action of direct mode.
AttemptEnded == pc = "exited" /\ exitBy \in {"process.exit", "return"}

\* C11 as stated: an attempt that called ensureDir(tempDir) has, when it
\* ends, removed the temp directory, or at least called fs.remove on it.
TempCleanup ==
  (AttemptEnded /\ Op("ensureDir", "temp") \in io) =>
    \/ "temp" \notin dirs /\ tempFiles = {}
    \/ Op("remove", "temp") \in io

\* The steps of interactive mode between the URL prompt and processFiles.
FilenameStep ==
  /\ mode = "interactive" /\ pc \in {"i_askName", "i_pathExists"}
  /\ exitBy' # "SIGINT"

\* output/.pdf, the path an empty name would give.
EmptyNamePath == PathJoin(OutputDirName, DotPdf)

\* C12 (interactive filename re-prompt): between the URL prompt and
\* processFiles the batch and the line it came from do not change, no
\* request is issued and no file or directory is touched; an empty name
\* keeps the session at the filename prompt, a name whose output/<name>.pdf
\* exists leads back to it, and processFiles is entered only with a path
\* that does not exist, with the batch parseUrls gave for the line.
FilenameReprompt ==
  [][FilenameStep =>
       /\ urls' = urls /\ urlsInput' = urlsInput
       /\ netReqs' = {} /\ writes' = <<>>
       /\ files' = files /\ dirs' = dirs /\ tempFiles' = tempFiles
       /\ pc' \in {"i_askName", "i_pathExists", "p_ensureTemp"}
       /\ (pc' = "i_pathExists" /\ pc = "i_askName") =>
            /\ outputPath' # EmptyNamePath
            /\ InOutputDir(outputPath')
       /\ (pc = "i_pathExists" /\ outputPath \in files /\ pc' # pc) =>
            /\ pc' = "i_askName"
            /\ console'[Len(console')] = Msg("nameExists", 0, NoErr, outputPath)
       /\ pc' = "p_ensureTemp" =>
            /\ pc = "i_pathExists" /\ outputPath \notin files
            /\ outputPath' = outputPath
            /\ urls' = ParsedLine[urlsInput] /\ Len(urls') >= 2]_vars

\* The name given first collided; the session is back at the filename
\* prompt with the batch of two it had collected.
FilenameRepromptWitness ==
  /\ mode = "interactive" /\ pc = "i_askName"
  /\ console # <<>> /\ console[Len(console)].tag = "nameExists"
  /\ Len(urls) = 2 /\ urls = ParsedLine[urlsInput]
  /\ netReqs = {}

\* Every file of a batch that passed the gate has failed in download,
\* sniffing or conversion.
EveryFileFailed ==
  /\ Len(fates) >= 2
  /\ \A k \in 1..Len(fates) : fates[k].stage \in {"download", "sniff", "convert"}

IsFailedFile(msg) == msg.tag = "failedFile"

\* C13 (all files failed): when every file of a batch that passed the gate
\* has failed in download, sniffing or conversion, mergePdfs is never
\* called and nothing is written; once the loop is over the attempt ends in
\* process.exit(1) with the 'All files failed to process' error, after a
\* list of every failed URL with its reason.
AllFilesFailed ==
  EveryFileFailed =>
    /\ \A k \in 1..Len(accessTests) : accessTests[k].success
    /\ pdfBuffers = <<>>
    /\ m = 0 /\ mergedPdf = <<>>
    /\ writes = <<>> /\ Op("writeFile", "output file") \notin io
    /\ outputPath \notin files
    /\ pc \in {"p_catch", "p_cleanup", "p_loop", "exited"}
    /\ pc = "exited" =>
         /\ EndedFatally
         /\ console[Len(console)] = Msg("error", 0, AllFailedError, <<>>)
         /\ SelectSeq(console, IsFailedFile)
              = [k \in 1..Len(urls) |->
                   Msg("failedFile", k, failedFiles[k].error, urls[k])]

\* Both files of a batch failed, one in download and one later, and the
\* attempt has ended.
AllFilesFailedWitness ==
  /\ EveryFileFailed /\ EndedFatally
  /\ fates[1].stage = "download" /\ fates[2].stage \in {"sniff", "convert"}
  /\ Len(failedFiles) = Len(urls)

(***************************************************************************)
(* parseUrls on its own: a text is parsed, the result is joined with a     *)
(* separator, and the joined text is parsed again.                         *)
(***************************************************************************)
\* Everything but mode, argv and pc is as at the start of the program.
Fresh ==
  /\ stdin = NoPaste
  /\ urlsInput = <<>> /\ urls = <<>> /\ outputPath = <<>>
  /\ dirs = {} /\ files = {} /\ tempFiles = {}
  /\ download = PartialFile
  /\ probes = <<>> /\ settled = <<>> /\ accessTests = <<>>
  /\ i = 0 /\ fileId = <<>> /\ pdfBuffers = <<>> /\ failedFiles = <<>>
  /\ error = NoErr
  /\ mergedPdf = <<>> /\ m = 0
  /\ exitCode = 0 /\ exitBy = "none"
  /\ console = <<>> /\ netReqs = {} /\ writes = <<>> /\ io = {} /\ fates = <<>>

\* array.join(sep)
RECURSIVE JoinWith(_, _)
JoinWith(seq, sep) ==
  IF seq = <<>> THEN <<>>
  ELSE IF Len(seq) = 1 THEN seq[1]
  ELSE seq[1] \o sep \o JoinWith(Tail(seq), sep)

\* Pieces of text: links the token test keeps, a word it drops, nothing.
TextPieces == {Url1, Url2, UrlNoId, Prose, <<>>}
\* What stands between the pieces, and around the text.
TextSeparators == {<<",">>, <<" ">>, <<"\n">>, <<",", " ">>, <<"\n", "\n">>, <<" ", ",", "\t">>}
TextPadding == {<<>>, <<" ">>}

\* The sequences of up to n elements of S.
RECURSIVE SeqsUpTo(_, _)
SeqsUpTo(S, n) ==
  IF n = 0 THEN {<<>>}
  ELSE SeqsUpTo(S, n - 1)
         \cup {Append(q, p) : q \in {x \in SeqsUpTo(S, n - 1) : Len(x) = n - 1}, p \in S}

\* The texts given to parseUrls: up to MaxUrls pieces.
Texts ==
  {pad \o JoinWith(q, sep) \o pad :
     q \in SeqsUpTo(TextPieces, MaxUrls), sep \in TextSeparators, pad \in TextPadding}

\* The separators of the claim: space, comma, newline.
JoinSeparators == {<<" ">>, <<",">>, <<"\n">>}

ParseInit ==
  /\ mode = "parseUrls"
  /\ argv \in [urls : Texts, output : {DefaultOutput}, name : {NotGiven}]
  /\ pc = "f_text"
  /\ Fresh

\* urls = parseUrls(text)
ParseText ==
  /\ pc = "f_text"
  /\ urls' = parseUrls(argv.urls)
  /\ pc' = "f_parsed"
  /\ UNCHANGED <<inputVars, urlsInput, outputPath, fsVars, probeVars, loopVars,
                 mergeVars, exitVars, console, netReqs, writes, io, fates>>

\* urls.join(sep)
Rejoin(sep) ==
  /\ pc = "f_parsed"
  /\ urlsInput' = JoinWith(urls, sep)
  /\ pc' = "f_joined"
  /\ UNCHANGED <<inputVars, urls, outputPath, fsVars, probeVars, loopVars,
                 mergeVars, exitVars, console, netReqs, writes, io, fates>>

\* parseUrls(joined)
ParseJoined ==
  /\ pc = "f_joined"
  /\ urls' = parseUrls(urlsInput)
  /\ pc' = "f_reparsed"
  /\ UNCHANGED <<inputVars, urlsInput, outputPath, fsVars, probeVars, loopVars,
                 mergeVars, exitVars, console, netReqs, writes, io, fates>>

ParseNext ==
  \/ ParseText
  \/ \E sep \in JoinSeparators : Rejoin(sep)
  \/ ParseJoined

ParseSpec == ParseInit /\ [][ParseNext]_vars

\* C14 (extraction idempotence): parsing the joined result of a parse gives
\* the same sequence of URLs, for each of the separators space, comma and
\* newline.
Idempotence == [][pc = "f_joined" => urls' = urls]_vars

\* A text with a word and doubled separators gave two different URLs, and
\* the joined result was parsed again.
IdempotenceWitness ==
  /\ pc = "f_reparsed"
  /\ Len(urls) = 2 /\ urls[1] # urls[2]
  /\ urlsInput # argv.urls
  /\ Len(urlsInput) < Len(argv.urls)

(***************************************************************************)
(* One token on its own: the token test of parseUrls, then extractFileId.  *)
(***************************************************************************)
Scheme == <<"h", "t", "t", "p", "s", ":", "/", "/">>
\* A host that is not Drive's.
OtherHost == <<"x", ".", "c", "o">>
\* Parts of a link: each marker with and without an identifier after it,
\* and a part without marker.
LinkParts ==
  { FileDPath \o <<"A">>,
    FileDPath,
    <<"?">> \o IdParam \o <<"B", "-", "_", "1">>,
    <<"?">> \o IdParam,
    DPath \o <<"C">>,
    <<"/", "v", "i", "e", "w">> }

\* The tokens: a host followed by up to MaxParts parts.
Tokens ==
  {Scheme \o host \o JoinWith(q, <<>>) :
     host \in {DriveHost, OtherHost}, q \in SeqsUpTo(LinkParts, MaxParts)}

ExtractInit ==
  /\ mode = "extractFileId"
  /\ argv \in [urls : Tokens, output : {DefaultOutput}, name : {NotGiven}]
  /\ pc = "f_token"
  /\ Fresh

\* parseUrls(token): the token is kept or dropped.
FilterToken ==
  /\ pc = "f_token"
  /\ urls' = parseUrls(argv.urls)
  /\ pc' = "f_filtered"
  /\ UNCHANGED <<inputVars, urlsInput, outputPath, fsVars, probeVars, loopVars,
                 mergeVars, exitVars, console, netReqs, writes, io, fates>>

\* extractFileId(token): returns the identifier or throws.
ExtractToken ==
  /\ pc = "f_filtered"
  /\ LET r == extractFileId(argv.urls)
     IN /\ fileId' = r.id
        /\ error' = r.error
        /\ pc' = IF r.ok THEN "f_id" ELSE "f_invalid"
  /\ UNCHANGED <<inputVars, sessionVars, fsVars, probeVars, i, download, pdfBuffers,
                 failedFiles, mergeVars, exitVars, console, netReqs, writes, io, fates>>

ExtractNext == FilterToken \/ ExtractToken

ExtractSpec == ExtractInit /\ [][ExtractNext]_vars

\* Both functions have been applied to the token.
Extracted == pc \in {"f_id", "f_invalid"}

\* Positions of the token where `marker` stands with an identifier
\* character right after it.
IdPositions(token, marker) ==
  {p \in 1..(Len(token) - Len(marker)) :
     /\ SubSeq(token, p, p + Len(marker) - 1) = marker
     /\ token[p + Len(marker)] \in IdChars}
HasIdAfter(token, marker) == IdPositions(token, marker) # {}

\* The tool takes the token: URL extraction keeps it and extractFileId
\* gives it an identifier.
Accepted == urls = <<argv.urls>> /\ pc = "f_id" /\ fileId # <<>>

\* C15 (accepted URL shapes, amended): a token that contains
\* 'drive.google.com' is accepted when it has a /file/d/<id> segment or an
\* id=<id> parameter; a bare /d/<id> segment is accepted only as a fallback,
\* in a token that also contains '/file/d/' or 'id=' (without identifier
\* after them); a token whose only marker is a bare /d/<id> is dropped by
\* URL extraction.
AcceptedShapes ==
  (Extracted /\ Includes(argv.urls, DriveHost)) =>
    /\ (HasIdAfter(argv.urls, FileDPath) \/ HasIdAfter(argv.urls, IdParam)) => Accepted
    /\ (/\ HasIdAfter(argv.urls, DPath)
        /\ Includes(argv.urls, FileDPath) \/ Includes(argv.urls, IdParam)) => Accepted
    /\ (/\ HasIdAfter(argv.urls, DPath)
        /\ ~Includes(argv.urls, FileDPath)
        /\ ~Includes(argv.urls, IdParam)) => urls = <<>>

\* A Drive token whose only marker is /d/C: extractFileId finds C, URL
\* extraction has dropped the token.
AcceptedShapesWitness ==
  /\ pc = "f_id" /\ fileId = <<"C">>
  /\ argv.urls = Scheme \o DriveHost \o DPath \o <<"C">>
  /\ urls = <<>>

\* C15 as stated: each of the three shapes is accepted.
AcceptedShapesAsStated ==
  (Extracted /\ Includes(argv.urls, DriveHost)) =>
    ((\/ HasIdAfter(argv.urls, FileDPath)
      \/ HasIdAfter(argv.urls, IdParam)
      \/ HasIdAfter(argv.urls, DPath)) => Accepted)

\* Smallest element of a set of numbers.
Least(S) == CHOOSE x \in S : \A y \in S : x <= y

\* The longest run of identifier characters after the leftmost place where
\* `marker` stands with an identifier character after it.
RunAfter(token, marker) ==
  LET from == Least(IdPositions(token, marker)) + Len(marker)
      ends == {e \in from..Len(token) : \A q \in from..e : token[q] \in IdChars}
  IN SubSeq(token, from, Least({e \in ends : e + 1 \notin ends}))

\* C20 (identifier extraction priority): extractFileId returns the run of
\* identifier characters after /file/d/ if the URL has one; otherwise the
\* one after id=; otherwise the one after /d/; and if it has none it throws
\* 'Invalid Google Drive URL: <url>'.
ExtractionPriority ==
  Extracted =>
    IF HasIdAfter(argv.urls, FileDPath)
      THEN pc = "f_id" /\ fileId = RunAfter(argv.urls, FileDPath)
    ELSE IF HasIdAfter(argv.urls, IdParam)
      THEN pc = "f_id" /\ fileId = RunAfter(argv.urls, IdParam)
    ELSE IF HasIdAfter(argv.urls, DPath)
      THEN pc = "f_id" /\ fileId = RunAfter(argv.urls, DPath)
    ELSE /\ pc = "f_invalid"
         /\ fileId = <<>>
         /\ error = Err(<<"Invalid Google Drive URL: ">>, argv.urls)

\* A URL with id=B-_1 in front of /file/d/A: both patterns match, with
\* different captures, and the identifier is A.
ExtractionPriorityWitness ==
  /\ pc = "f_id" /\ fileId = <<"A">>
  /\ HasIdAfter(argv.urls, FileDPath) /\ HasIdAfter(argv.urls, IdParam)
  /\ Least(IdPositions(argv.urls, IdParam)) < Least(IdPositions(argv.urls, FileDPath))
  /\ RunAfter(argv.urls, IdParam) = <<"B", "-", "_", "1">>

\* Direct mode has ended by itself.
DirectEnded == mode = "direct" /\ pc = "exited" /\ exitBy # "SIGINT"

\* Direct mode found the output path taken and went no further.
StoppedAtCollision ==
  /\ outputPath \in files
  /\ Op("pathExists", "output file") \in io
  /\ Op("ensureDir", "temp") \notin io

\* Every file of a batch that passed the gate was attempted and none was
\* pushed.
NothingPushed ==
  /\ Len(fates) >= 2 /\ Pushed = {}
  /\ \A k \in 1..Len(fates) : fates[k].stage # "pending"

\* C16 (direct-mode exit status, amended): direct mode ends with status 1,
\* by process.exit, on no URL, on an existing output path, on a rejection by
\* the access gate, when all files failed and on a failure of the merge
\* phase; it ends with status 0, by return, in the single-URL case and after
\* a merge that was written; a file failing in download, sniffing or
\* conversion while another succeeds does not by itself give status 1.
DirectExitStatus ==
  DirectEnded =>
    /\ exitCode \in {0, 1}
    /\ exitCode = 1 <=> exitBy = "process.exit"
    /\ Len(ParsedArgument[argv.urls]) = 0 => exitCode = 1
    /\ Len(ParsedArgument[argv.urls]) = 1 => exitCode = 0
    /\ StoppedAtCollision => exitCode = 1
    /\ FailingProbes # {} => exitCode = 1
    /\ NothingPushed => exitCode = 1
    /\ MergePhaseFailed => exitCode = 1
    /\ (PartialFailure /\ ~MergePhaseFailed) => exitCode = 0 /\ Len(writes) = 1
    /\ exitCode = 0 => Len(urls) = 1 \/ (Len(writes) = 1 /\ "temp" \notin dirs)

\* Direct mode returned with status 0 although the first file of the batch
\* had failed in download: the second one was merged and written.
DirectExitStatusWitness ==
  /\ DirectEnded /\ exitCode = 0
  /\ fates # <<>> /\ fates[1].stage = "download"
  /\ Len(writes) = 1 /\ Len(pdfBuffers) = 1

\* C16 as stated: a file failing in download or conversion gives status 1.
DirectExitStatusAsStated ==
  (DirectEnded /\ FailedInLoop # {}) => exitCode = 1

(***************************************************************************)
(* getFileType on its own.                                                 *)
(***************************************************************************)
\* First four bytes: "%PDF", the image signatures (padded to four bytes),
\* the two box sizes seen in front of "ftyp", and text.
LeadingBytes ==
  { <<37, 80, 68, 70>>,
    <<137, 80, 78, 71>>,
    <<255, 216, 255, 224>>,
    <<71, 73, 70, 56>>,
    <<66, 77, 0, 0>>,
    <<82, 73, 70, 70>>,
    <<0, 0, 0, 24>>,
    <<0, 0, 0, 32>>,
    <<104, 105, 10, 10>> }
\* Bytes 4..11: "ftypheic", "ftypmif1", "ftypavif", zeros.
BoxBytes ==
  { <<102, 116, 121, 112, 104, 101, 105, 99>>,
    <<102, 116, 121, 112, 109, 105, 102, 49>>,
    <<102, 116, 121, 112, 97, 118, 105, 102>>,
    <<0, 0, 0, 0, 0, 0, 0, 0>> }
\* The buffers: every prefix of up to MaxBytes bytes of a file that starts
\* with such bytes.
Buffers ==
  {SubSeq(lead \o box \o <<0, 0, 0, 0>>, 1, n) :
     lead \in LeadingBytes, box \in BoxBytes, n \in 0..MaxBytes}

SniffInit ==
  /\ mode = "getFileType"
  /\ argv = NoOptions
  /\ stdin = NoPaste
  /\ pc = "f_buffer"
  /\ urlsInput = <<>> /\ urls = <<>> /\ outputPath = <<>>
  /\ dirs = {} /\ files = {} /\ tempFiles = {}
  /\ download \in {File(b, 0, FALSE, "other") : b \in Buffers}
  /\ probes = <<>> /\ settled = <<>> /\ accessTests = <<>>
  /\ i = 0 /\ fileId = <<>> /\ pdfBuffers = <<>> /\ failedFiles = <<>>
  /\ error = NoErr
  /\ mergedPdf = <<>> /\ m = 0
  /\ exitCode = 0 /\ exitBy = "none"
  /\ console = <<>> /\ netReqs = {} /\ writes = <<>> /\ io = {} /\ fates = <<>>

\* getFileType returns "pdf" or "image", or throws.
Classify ==
  /\ pc = "f_buffer"
  /\ LET t == getFileType(download.bytes)
     IN /\ pc' = IF ~t.ok THEN "f_unsupported"
                 ELSE IF t.type = "pdf" THEN "f_pdf" ELSE "f_image"
        /\ error' = t.error
  /\ UNCHANGED <<inputVars, sessionVars, fsVars, probeVars, i, fileId, download,
                 pdfBuffers, failedFiles, mergeVars, exitVars, console, netReqs,
                 writes, io, fates>>

SniffNext == Classify

SniffSpec == SniffInit /\ [][SniffNext]_vars

StartsWith(buffer, bytes) ==
  Len(buffer) >= Len(bytes) /\ SubSeq(buffer, 1, Len(bytes)) = bytes

\* The leading signatures of the table: PNG, JPEG, GIF, BMP, RIFF, and the
\* twelve bytes 00 00 00 18 "ftypheic".
LeadingSignatures ==
  { <<137, 80, 78, 71>>, <<255, 216, 255>>, <<71, 73, 70>>, <<66, 77>>,
    <<82, 73, 70, 70>>,
    <<0, 0, 0, 24, 102, 116, 121, 112, 104, 101, 105, 99>> }
\* "ftypheic" or "ftypmif1" at offset 4
BrandAtOffset4(buffer) ==
  /\ Len(buffer) >= 12
  /\ SubSeq(buffer, 5, 12) \in { <<102, 116, 121, 112, 104, 101, 105, 99>>,
                                  <<102, 116, 121, 112, 109, 105, 102, 49>> }

\* C17 (byte-signature classification): a buffer that begins with "%PDF" is
\* a pdf, whatever follows; otherwise a buffer that begins with a signature
\* of the table, or has "ftypheic" or "ftypmif1" at offset 4, is an image;
\* any other buffer, the empty one and those shorter than the signatures
\* included, makes getFileType throw the 'Unsupported file type' error.
ByteSignatures ==
  pc \in {"f_pdf", "f_image", "f_unsupported"} =>
    IF StartsWith(download.bytes, <<37, 80, 68, 70>>)
      THEN pc = "f_pdf" /\ error = NoErr
    ELSE IF \/ \E sig \in LeadingSignatures : StartsWith(download.bytes, sig)
            \/ BrandAtOffset4(download.bytes)
      THEN pc = "f_image" /\ error = NoErr
    ELSE /\ pc = "f_unsupported"
         /\ Mentions(error, "Unsupported file type")

\* "%PDF" followed by "ftypheic" was classified as pdf.
ByteSignaturesWitness ==
  /\ pc = "f_pdf"
  /\ StartsWith(download.bytes, <<37, 80, 68, 70>>)
  /\ BrandAtOffset4(download.bytes)

\* Direct mode has determined its output path.
PathChosen ==
  /\ mode = "direct"
  /\ pc \notin {"start", "d_ensureDir"}
  /\ Len(urls) >= 2

PasteLines == {Url1, Url2, Url1 \o <<",">> \o Url2, <<>>}
\* The lines that arrive in one 'data' event
Chunks == SeqsUpTo(PasteLines, MaxLines) \ {<<>>}
\* The paste arrives in one piece or in two, or three lines arrive one by one.
Pastes ==
  {<<c>> : c \in Chunks} \cup {<<c, d>> : c \in Chunks, d \in Chunks}
    \cup {<< <<a>>, <<b>>, <<c>> >> : a \in PasteLines, b \in PasteLines, c \in PasteLines}

PasteInit ==
  /\ mode = "interactive"
  /\ argv = NoOptions
  /\ stdin \in {[chunks |-> p, at |-> 1] : p \in Pastes}
  /\ pc = "i_askUrls"
  /\ urlsInput = <<>> /\ urls = <<>> /\ outputPath = <<>>
  /\ dirs = {"output"} /\ files = {} /\ tempFiles = {}
  /\ download = PartialFile
  /\ probes = <<>> /\ settled = <<>> /\ accessTests = <<>>
  /\ i = 0 /\ fileId = <<>> /\ pdfBuffers = <<>> /\ failedFiles = <<>>
  /\ error = NoErr
  /\ mergedPdf = <<>> /\ m = 0
  /\ exitCode = 0 /\ exitBy = "none"
  /\ console = <<>> /\ netReqs = {} /\ writes = <<>>
  /\ io = {Op("ensureDir", "output")} /\ fates = <<>>

Arrives == stdin.at <= Len(stdin.chunks)
\* The first line of the chunk goes to the listener or callback in place,
\* which is removed by it; the 'line' events of the other lines of the chunk
\* are emitted before the awaiting code runs again, to nobody.
FirstLine == Head(stdin.chunks[stdin.at])
NextChunk == stdin' = [stdin EXCEPT !.at = @ + 1]

\* A chunk arrives while onLine of askMultiLineQuestion is registered.
PasteUrls == Arrives /\ AskUrls(FirstLine) /\ NextChunk
\* A chunk arrives while the callback of rl.question is set.
PasteName == Arrives /\ AskName(FirstLine) /\ NextChunk
\* A chunk arrives while pathExists is pending: nobody listens.
PasteUnheard ==
  /\ Arrives /\ pc = "i_pathExists"
  /\ NextChunk
  /\ UNCHANGED <<mode, argv, pc, sessionVars, fsVars, probeVars, loopVars, mergeVars,
                 exitVars, console, netReqs, writes, io, fates>>

PasteNext == PasteUrls \/ PasteName \/ PasteUnheard \/ InteractivePathExists

PasteSpec == PasteInit /\ [][PasteNext]_vars

RECURSIVE Flatten(_)
Flatten(seqs) == IF seqs = <<>> THEN <<>> ELSE Head(seqs) \o Flatten(Tail(seqs))
\* The URLs of the pasted text
PastedUrls == parseUrls(JoinWith(Flatten(stdin.chunks), <<"\n">>))

\* C19 (newline-separated URLs at the URL prompt): once all of a paste that
\* holds two or more URLs has arrived, the batch is the URLs of all its
\* lines, and the program is past the URL prompt.
NewlinePaste ==
  (stdin.chunks # <<>> /\ ~Arrives /\ Len(PastedUrls) >= 2) =>
    /\ urls = PastedUrls
    /\ pc # "i_askUrls"

(***************************************************************************)
(* testUrlAccess on its own.                                               *)
(***************************************************************************)
\* How the request of a probe can end: a response whose status passes
\* validateStatus, with its content-type header; a response whose status
\* does not, which axios turns into an error that carries the response; an
\* error of the transport; an error without a message.
RequestOutcomes ==
  {Response(status, ctype) :
     status \in {200, 206},
     ctype \in {<<>>, <<"application/pdf">>, <<"image/png">>, <<"text/html">>,
                <<"text/html", "; charset=utf-8">>}}
    \cup { Failure(403, "ERR_BAD_REQUEST", <<"Request failed with status code 403">>),
           Failure(404, "ERR_BAD_REQUEST", <<"Request failed with status code 404">>),
           Failure(429, "ERR_BAD_REQUEST", <<"Request failed with status code 429">>),
           Failure(500, "ERR_BAD_RESPONSE", <<"Request failed with status code 500">>),
           Failure(0, "ENOTFOUND", <<"getaddrinfo ENOTFOUND drive.google.com">>),
           Failure(0, "ECONNRESET", <<"socket hang up">>),
           Failure(0, "ECONNABORTED", <<"timeout of 10000ms exceeded">>),
           Failure(0, "", <<>>) }

\* One probe with its URL and ordinal, suspended at its request, together
\* with the way the request is going to end.
ProbeInit ==
  /\ mode = "testUrlAccess"
  /\ argv = NoOptions
  /\ stdin = NoPaste
  /\ pc = "f_request"
  /\ urlsInput = <<>> /\ outputPath = <<>>
  /\ urls \in {<<Url1>>, <<Url2>>, <<UrlNoId>>}
  /\ i \in 1..MaxUrls
  /\ probes \in {<<[done |-> FALSE, result |-> ProbeResult(FALSE, urls[1], i, <<>>, NoErr),
                    outcome |-> o]>> : o \in RequestOutcomes}
  /\ settled = <<>> /\ accessTests = <<>>
  /\ dirs = {} /\ files = {} /\ tempFiles = {}
  /\ download = PartialFile
  /\ fileId = <<>> /\ pdfBuffers = <<>> /\ failedFiles = <<>>
  /\ error = NoErr
  /\ mergedPdf = <<>> /\ m = 0
  /\ exitCode = 0 /\ exitBy = "none"
  /\ console = <<>> /\ netReqs = {} /\ writes = <<>> /\ io = {} /\ fates = <<>>

\* testUrlAccess returns its record.
ProbeReturn ==
  /\ pc = "f_request"
  /\ accessTests' = <<testUrlAccess(urls[1], i, probes[1].outcome)>>
  /\ pc' = "f_result"
  /\ UNCHANGED <<inputVars, sessionVars, fsVars, probes, settled, loopVars, mergeVars,
                 exitVars, console, netReqs, writes, io, fates>>

ProbeNext == ProbeReturn

ProbeSpec == ProbeInit /\ [][ProbeNext]_vars

\* The content-type header names HTML.
IsHtml(ctype) == ctype # <<>> /\ ctype[1] = "text/html"

\* The reason for a request that ended in an error, by priority.
ReasonOf(outcome) ==
  IF outcome.status = 403 THEN <<"Permission denied">>
  ELSE IF outcome.status = 404 THEN <<"File not found">>
  ELSE IF outcome.code = "ENOTFOUND" THEN <<"Network error">>
  ELSE IF outcome.code = "ECONNRESET" THEN <<"Connection reset">>
  ELSE IF outcome.message = <<>> THEN <<"Unknown error">>
  ELSE outcome.message

\* C21 (probe classification): for a URL that carries an identifier, the
\* record of testUrlAccess has success = TRUE exactly when the response has
\* status 200 or 206 and a content type that is not HTML; with such a status
\* and an HTML content type the reason is 'Permission denied or file not
\* accessible'; otherwise the reason is 'Permission denied' for status 403,
\* 'File not found' for 404, 'Network error' for code ENOTFOUND, 'Connection
\* reset' for ECONNRESET, and else the message of the error, or 'Unknown
\* error' when it is empty.
ProbeClassification ==
  (pc = "f_result" /\ urls[1] \in {Url1, Url2}) =>
    LET r == accessTests[1]
        o == probes[1].outcome
        answered == o.resolved /\ o.status \in {200, 206}
    IN /\ r.success <=> (answered /\ ~IsHtml(o.ctype))
       /\ r.success => r.error = NoErr
       /\ (answered /\ IsHtml(o.ctype)) =>
            r.error.parts = <<"Permission denied or file not accessible">>
       /\ ~answered => r.error.parts = ReasonOf(o)

\* A 200 response with an HTML body was classified as inaccessible.
ProbeClassificationWitness ==
  /\ pc = "f_result"
  /\ urls[1] = Url1
  /\ probes[1].outcome.resolved /\ probes[1].outcome.status = 200
  /\ IsHtml(probes[1].outcome.ctype)
  /\ ~accessTests[1].success
  /\ accessTests[1].error.parts = <<"Permission denied or file not accessible">>

\* The ordinals 1..n that satisfy Test, in increasing order.
OrdinalsWhere(n, Test(_)) == SelectSeq([k \in 1..n |-> k], Test)
\* The messages of the console with the given tag, in printing order.
Printed(tag) == SelectSeq(console, LAMBDA msg : msg.tag = tag)
\* The ordinals of the probes that settled with success = false.
FailingOrdinals == OrdinalsWhere(Len(probes), LAMBDA k : ~probes[k].result.success)
\* The attempt has ended at the access gate.
GateRejected ==
  /\ exitBy = "process.exit"
  /\ Len(accessTests) > 0
  /\ \E k \in 1..Len(accessTests) : ~accessTests[k].success

\* C22 (probe report order): whatever the order in which the probes settle,
\* the record of the probe of the k-th URL carries ordinal k and that URL,
\* the aggregated results are in input order, and the report of a rejected
\* batch lists the failing URLs in input order, each with its ordinal, its
\* reason and its URL.
ProbeReportOrder ==
  /\ pc = "p_probing" =>
       \A k \in 1..Len(probes) :
         probes[k].done => probes[k].result.index = k /\ probes[k].result.url = urls[k]
  /\ Len(accessTests) > 0 =>
       /\ Len(accessTests) = Len(urls)
       /\ \A k \in 1..Len(urls) :
            /\ accessTests[k].index = k
            /\ accessTests[k].url = urls[k]
            /\ accessTests[k] = probes[k].result
  /\ GateRejected =>
       /\ Len(Printed("accessIssue")) = Len(FailingOrdinals)
       /\ Len(Printed("failedUrl")) = Len(FailingOrdinals)
       /\ \A j \in 1..Len(FailingOrdinals) :
            /\ Printed("accessIssue")[j].index = FailingOrdinals[j]
            /\ Printed("accessIssue")[j].url = urls[FailingOrdinals[j]]
            /\ Printed("accessIssue")[j].error = probes[FailingOrdinals[j]].result.error
            /\ Printed("failedUrl")[j].url = urls[FailingOrdinals[j]]

\* The second probe settled before the first one, both failed for different
\* reasons, and the report names the first URL first.
ProbeReportOrderWitness ==
  /\ GateRejected
  /\ Len(settled) >= 2 /\ settled[1] = 2 /\ settled[2] = 1
  /\ Len(Printed("accessIssue")) >= 2
  /\ Printed("accessIssue")[1].index = 1
  /\ Printed("accessIssue")[2].index = 2
  /\ Printed("accessIssue")[1].error # Printed("accessIssue")[2].error

\* A download request has been issued.
DownloadStarted == \E r \in netReqs : r.kind = "download"
\* The step takes the program to the await `label`.
Enters(label) == pc' = label /\ pc # label
\* Every URL of the batch is the origin of a buffer or of a recorded failure.
AllAccounted ==
  \A k \in 1..Len(urls) :
    \/ \E j \in 1..Len(pdfBuffers) : pdfBuffers[j].origin = k
    \/ \E j \in 1..Len(failedFiles) : failedFiles[j].index = k

PipelineStep ==
  /\ DownloadStarted => \A r \in netReqs' \ netReqs : r.kind # "probe"
  /\ Enters("p_download") => pc = "p_loop"
  /\ Enters("p_sniff") => pc = "p_download" /\ TempFile(i, fileId) \in tempFiles'
  /\ Enters("p_readPdf") =>
       pc = "p_sniff" /\ StartsWith(download.bytes, <<37, 80, 68, 70>>)
  /\ Enters("p_convert") =>
       pc = "p_sniff" /\ ~StartsWith(download.bytes, <<37, 80, 68, 70>>)
  /\ Len(pdfBuffers') > Len(pdfBuffers) => pc \in {"p_readPdf", "p_convert"}
  /\ Enters("m_load") => Len(urls) > 0 /\ AllAccounted

\* C23 (pipeline ordering within one attempt): a download request exists
\* only when every probe of the batch has settled and the results are
\* joined; after the first download request no probe request is issued;
\* for each file the download comes first, then getFileType on the
\* downloaded file, then the read of a PDF or the conversion of anything
\* else that has a supported type; mergePdfs is entered only when every
\* URL of the batch has produced a buffer or a recorded failure.
PipelineOrder ==
  /\ [](DownloadStarted =>
          /\ Len(probes) = Len(urls)
          /\ \A k \in 1..Len(probes) : probes[k].done
          /\ Len(accessTests) = Len(urls))
  /\ [][PipelineStep]_vars

\* A PDF and an image were fetched, the image was converted, and the merge
\* has loaded both.
PipelineOrderWitness ==
  /\ pc = "m_write"
  /\ DownloadStarted
  /\ Len(pdfBuffers) = 2
  /\ \E k \in 1..Len(fates) : fates[k].file = PngFile /\ fates[k].stage = "ok"
  /\ \E k \in 1..Len(fates) : fates[k].file = PdfFile(1) /\ fates[k].stage = "ok"

\* processFiles is running its loop or the merge.
InAttempt ==
  pc \in {"p_loop", "p_download", "p_sniff", "p_readPdf", "p_convert", "p_remove",
          "p_catch", "p_cleanup", "m_load", "m_write"}
\* The file of the running iteration is on disk, or may be.
FileInFlight == pc \in {"p_sniff", "p_readPdf", "p_convert", "p_remove", "p_catch", "p_cleanup"}
NoRemovalFailed == Op("remove failed", "temp file") \notin io

UnrecognizedShape == \E k \in 1..Len(urls) : ~extractFileId(urls[k]).ok

\* C25 (validation errors precede I/O): with a URL of unrecognized shape in
\* the batch, no network request is issued for any URL of the batch and no
\* directory or file is created.
ValidationBeforeIO ==
  UnrecognizedShape =>
    /\ netReqs = {}
    /\ \A op \in io : op[1] \notin {"mkdir", "createWriteStream", "writeFile"}

\* The attempt ended at the access gate, with all files failed, or with an
\* error of mergePdfs.
FatalOutcome ==
  /\ EndedFatally
  /\ console # <<>>
  /\ LET last == console[Len(console)]
     IN /\ last.tag = "error"
        /\ \/ last.error \in {PermissionError, AllFailedError}
           \/ Mentions(last.error, "Failed to merge PDFs: ")

\* C26 (no partial output on fatal failure): the output path is written at
\* most once per attempt, and only when every buffer has been loaded and
\* copied; after a fatal outcome (gate rejection, all files failed, merge
\* error) the program has created no file at the output path.
NoPartialOutput ==
  /\ Len(writes) <= 1
  /\ Op("open", "output file") \in io => m = Len(pdfBuffers) + 1
  /\ FatalOutcome => writes = <<>> /\ Op("open", "output file") \notin io

\* The characters that separate tokens: white space and the comma.
Separates(c) == c \in {" ", "\t", "\n", ","}
\* The maximal runs of characters of s from position p on that hold no
\* separating character, in order; `run` is the run being read.
RECURSIVE RunsFrom(_, _, _)
RunsFrom(s, p, run) ==
  IF p > Len(s) THEN (IF run = <<>> THEN <<>> ELSE <<run>>)
  ELSE IF Separates(s[p])
    THEN (IF run = <<>> THEN <<>> ELSE <<run>>) \o RunsFrom(s, p + 1, <<>>)
  ELSE RunsFrom(s, p + 1, Append(run, s[p]))
\* The token holds 'drive.google.com' and '/file/d/' or 'id='.
NamesDriveFile(token) ==
  /\ Includes(token, <<"d", "r", "i", "v", "e", ".", "g", "o", "o", "g", "l", "e", ".",
                       "c", "o", "m">>)
  /\ \/ Includes(token, <<"/", "f", "i", "l", "e", "/", "d", "/">>)
     \/ Includes(token, <<"i", "d", "=">>)

\* C27 (URL extraction output shape): the result of parseUrls is the
\* sequence of the tokens of the input (its maximal runs without white
\* space, comma or newline) that hold 'drive.google.com' and '/file/d/' or
\* 'id=', in input order and with repetitions: every such token is
\* returned, nothing else is, and no returned token is empty or holds a
\* separating character.
OutputShape ==
  pc = "f_parsed" =>
    /\ urls = SelectSeq(RunsFrom(argv.urls, 1, <<>>), NamesDriveFile)
    /\ \A k \in 1..Len(urls) :
         /\ urls[k] # <<>>
         /\ \A p \in 1..Len(urls[k]) : ~Separates(urls[k][p])
         /\ NamesDriveFile(urls[k])

\* The same link twice in the text, returned twice.
OutputShapeWitness ==
  /\ pc = "f_parsed"
  /\ Len(urls) = 2 /\ urls[1] = urls[2]
  /\ Len(RunsFrom(argv.urls, 1, <<>>)) = 2

\* The gate has passed: the results are joined and none is a failure.
GatePassed ==
  /\ Len(accessTests) > 0
  /\ \A k \in 1..Len(accessTests) : accessTests[k].success
\* The stages of an iteration at which a file can fail.
LoopStages == {"download", "sniff", "convert", "remove"}

\* C28 (no invalid URL after the gate): in a batch that passed the gate
\* every URL has an identifier, the one its probe found; no iteration of
\* the loop fails at the extraction of the identifier, and every entry of
\* failedFiles comes from the download, the type sniffing, the conversion
\* or the removal of the temp file, never with the 'Invalid Google Drive
\* URL' error.
NoInvalidUrlInLoop ==
  /\ GatePassed =>
       \A k \in 1..Len(urls) : urls[k] # UrlNoId /\ accessTests[k].fileId # <<>>
  /\ \A k \in 1..Len(fates) : fates[k].stage # "identifier"
  /\ pc \in {"p_download", "p_sniff", "p_readPdf", "p_convert", "p_remove"} =>
       fileId = accessTests[i + 1].fileId
  /\ \A j \in 1..Len(failedFiles) :
       /\ fates[failedFiles[j].index].stage \in LoopStages
       /\ ~Mentions(failedFiles[j].error, "Invalid Google Drive URL: ")

\* After the gate, the first file failed at its download and the second one
\* at type sniffing.
NoInvalidUrlInLoopWitness ==
  /\ GatePassed
  /\ Len(failedFiles) = 2
  /\ fates[1].stage = "download" /\ fates[2].stage = "sniff"

\* The loop of processFiles has run over the whole batch.
LoopOver == pc \in {"m_load", "m_write", "p_finally"} \/ (pc = "p_loop" /\ i = Len(urls))
\* The number of entries of pdfBuffers, of failedFiles, that come from URL k.
BuffersOf(k) == Cardinality({j \in 1..Len(pdfBuffers) : pdfBuffers[j].origin = k})
FailuresOf(k) == Cardinality({j \in 1..Len(failedFiles) : failedFiles[j].index = k})

\* C29 (every URL accounted for exactly once): when the loop has ended,
\* each ordinal is the origin of exactly one entry of pdfBuffers or of
\* exactly one entry of failedFiles, not of both, and the two lengths add
\* up to the size of the batch.
AccountedOnce ==
  (LoopOver /\ Len(urls) > 0) =>
    /\ \A k \in 1..Len(urls) : BuffersOf(k) + FailuresOf(k) = 1
    /\ Len(pdfBuffers) + Len(failedFiles) = Len(urls)

\* C30 (testUrlAccess never rejects): every probe that has settled has a
\* result record, for its own URL and ordinal, whose failure carries a
\* reason; for a URL without identifier the record has success = FALSE and
\* the reason 'Invalid Google Drive URL: <url>'; the join happens only when
\* every probe has settled and yields one result per URL of the batch; the
\* attempt never ends in the catch of processFiles while a probe is pending.
ProbesNeverReject ==
  /\ \A k \in 1..Len(probes) :
       probes[k].done =>
         /\ probes[k].result.url = urls[k] /\ probes[k].result.index = k
         /\ probes[k].result.success \in BOOLEAN
         /\ probes[k].result.success <=> probes[k].result.error = NoErr
         /\ urls[k] = UrlNoId =>
              /\ ~probes[k].result.success
              /\ probes[k].result.error = Err(<<"Invalid Google Drive URL: ">>, urls[k])
  /\ Len(accessTests) > 0 =>
       /\ Len(accessTests) = Len(urls)
       /\ \A k \in 1..Len(probes) : probes[k].done
  /\ (exitBy = "process.exit" /\ Len(probes) > 0) =>
       /\ \A k \in 1..Len(probes) : probes[k].done
       /\ Len(accessTests) = Len(urls)

\* A batch of a link whose probe timed out and a link without identifier:
\* both results are there when the gate rejects the batch.
ProbesNeverRejectWitness ==
  /\ exitBy = "process.exit"
  /\ Len(accessTests) = 2
  /\ urls[2] = UrlNoId
  /\ accessTests[1].error.parts = <<"timeout of 10000ms exceeded">>
  /\ accessTests[2].error = Err(<<"Invalid Google Drive URL: ">>, UrlNoId)

====
